---------------------------- MODULE Spec2Model ----------------------------
(***************************************************************************)
(* Personal Assistant CLI (contacts and notes): validated fields, contact  *)
(* records, the address book and notebook, the command handlers, the       *)
(* prefix-matching command registry and the interactive shell loop.        *)
(*                                                                         *)
(* Strings are sequences of one-character strings, so that strip(),        *)
(* lower(), prefix tests, regular-expression validation, date parsing and  *)
(* formatting are computed character by character as the code does.        *)
(* An optional value (Python None or a value) is a sequence of length 0 or *)
(* 1; the same shape is used for "raised ValidationError" or a value.      *)
(***************************************************************************)
EXTENDS Integers, Sequences, FiniteSets, TLC

VARIABLES
    book,          \* AddressBook.data: ordered sequence of [key, rec]
    notebook,      \* Notebook.data: ordered sequence of [key, note]
    contactsFile,  \* contents of contacts.json (list of contact dicts)
    notesFile,     \* contents of notes.json (list of note dicts)
    out,           \* what the shell printed for the last line it read
    running,       \* TRUE while PersonalAssistantCLI.run is in its loop
    padYear,       \* whether strftime of the platform pads %Y to 4 digits
    call,          \* the last direct API call (operation, arguments, pre-state)
    ret            \* its return value

vars == <<book, notebook, contactsFile, notesFile, out, running, padYear, call, ret>>

-----------------------------------------------------------------------------
(* Characters and Python str operations                                    *)

UpperChars == <<"A","B","C","D","E","F","G","H","I","J","K","L","M",
                "N","O","P","Q","R","S","T","U","V","W","X","Y","Z">>
LowerChars == <<"a","b","c","d","e","f","g","h","i","j","k","l","m",
                "n","o","p","q","r","s","t","u","v","w","x","y","z">>
DigitChars == <<"0","1","2","3","4","5","6","7","8","9">>

\* Punctuation used in command lines, with its code point.
PunctChars == <<" ", "+", ",", "-", ".", ":", "=", "@", "_">>
PunctCodes == <<32, 43, 44, 45, 46, 58, 61, 64, 95>>

IndexIn(c, chars) == IF \E i \in 1..Len(chars) : chars[i] = c
                     THEN CHOOSE i \in 1..Len(chars) : chars[i] = c
                     ELSE 0

UpperSet == {UpperChars[i] : i \in 1..Len(UpperChars)}
LowerSet == {LowerChars[i] : i \in 1..Len(LowerChars)}
DigitSet == {DigitChars[i] : i \in 1..Len(DigitChars)}
PunctSet == {PunctChars[i] : i \in 1..Len(PunctChars)}

\* ord(c) for the characters of the model
OrdOf == [c \in UpperSet \cup LowerSet \cup DigitSet \cup PunctSet |->
            IF c \in DigitSet THEN 47 + IndexIn(c, DigitChars)
            ELSE IF c \in UpperSet THEN 64 + IndexIn(c, UpperChars)
            ELSE IF c \in LowerSet THEN 96 + IndexIn(c, LowerChars)
            ELSE PunctCodes[IndexIn(c, PunctChars)]]
Ord(c) == OrdOf[c]

\* c.lower() for an upper-case letter
LowerOf == [c \in UpperSet |-> LowerChars[IndexIn(c, UpperChars)]]
\* int(c) for a digit
ValueOf == [c \in DigitSet |-> IndexIn(c, DigitChars) - 1]

IsUpper(c) == c \in UpperSet
IsLower(c) == c \in LowerSet
IsAlpha(c) == IsUpper(c) \/ IsLower(c)
IsDigit(c) == c \in DigitSet
IsSpace(c) == c = " "
DigitVal(c) == ValueOf[c]

LowerChar(c) == IF IsUpper(c) THEN LowerOf[c] ELSE c

\* str.lower()
Lower(s) == [i \in 1..Len(s) |-> LowerChar(s[i])]


\* least and greatest element of a non-empty set of integers
MinOf(S) == CHOOSE i \in S : \A j \in S : i <= j
MaxOf(S) == CHOOSE i \in S : \A j \in S : j <= i

\* s without the characters before the first and after the last index in idx
StripTo(s, idx) == IF idx = {} THEN <<>> ELSE SubSeq(s, MinOf(idx), MaxOf(idx))

\* str.strip()
Strip(s) == StripTo(s, {i \in 1..Len(s) : ~IsSpace(s[i])})

\* s.replace(" ", "")
RemoveSpaces(s) == SelectSeq(s, LAMBDA c : c # " ")

\* s.startswith(p)
StartsWith(s, p) == Len(p) <= Len(s) /\ SubSeq(s, 1, Len(p)) = p

\* p in s (substring test)
Contains(s, p) == \E i \in 0..(Len(s) - Len(p)) : SubSeq(s, i + 1, i + Len(p)) = p

\* s < t for Python strings: lexicographic by code point
StrLess(s, t) ==
    \E k \in 0..Len(s) :
        /\ k <= Len(t)
        /\ SubSeq(s, 1, k) = SubSeq(t, 1, k)
        /\ \/ (k = Len(s) /\ k < Len(t))
           \/ (k < Len(s) /\ k < Len(t) /\ Ord(s[k + 1]) < Ord(t[k + 1]))

RECURSIVE DigitsToInt(_)
\* int(s) for a string of decimal digits
DigitsToInt(s) == IF s = <<>> THEN 0
                  ELSE 10 * DigitsToInt(SubSeq(s, 1, Len(s) - 1)) + DigitVal(s[Len(s)])

RECURSIVE IntToDigits(_)
\* str(n) for n >= 0
IntToDigits(n) == IF n < 10 THEN <<DigitChars[n + 1]>>
                  ELSE IntToDigits(n \div 10) \o <<DigitChars[(n % 10) + 1]>>

RECURSIVE ZeroPad(_, _)
\* zero padding to a width, as the %m and %d of strftime (and %Y where it pads)
ZeroPad(s, width) == IF Len(s) >= width THEN s ELSE ZeroPad(<<"0">> \o s, width)

AllDigits(s) == \A i \in 1..Len(s) : IsDigit(s[i])

-----------------------------------------------------------------------------
(* fields.py: validated fields.  Each validate returns <<>> when it raises *)
(* ValidationError and <<value>> when it returns value.                    *)

\* the value a validate returns for cleaned text that may be empty
NonEmpty(cleaned) == IF cleaned = <<>> THEN <<>> ELSE <<cleaned>>

\* Name.validate
NameValidate(value) == NonEmpty(Strip(value))

PhoneMinDigits == 7
PhoneMaxDigits == 15

\* \d{7,15}$
PhoneDigits(body) ==
    /\ Len(body) >= PhoneMinDigits
    /\ Len(body) <= PhoneMaxDigits
    /\ AllDigits(body)

\* Phone.PHONE_PATTERN  ^\+?\d{7,15}$
PhonePatternMatch(s) ==
    IF s # <<>> /\ s[1] = "+" THEN PhoneDigits(Tail(s)) ELSE PhoneDigits(s)

\* the result of Phone.validate for value.strip().replace(" ", "")
PhoneChecked(digits) == IF PhonePatternMatch(digits) THEN <<digits>> ELSE <<>>

\* a Phone.validate that lets every text through
PhoneUnchecked(value) == <<RemoveSpaces(Strip(value))>>

\* Phone.validate
PhoneValidate(value) == PhoneChecked(RemoveSpaces(Strip(value)))

EmailMinLen == 3
EmailMaxLen == 254
EmailMinTld == 2

IsLocalChar(c)  == IsAlpha(c) \/ IsDigit(c) \/ c \in {".", "_", "%", "+", "-"}
IsDomainChar(c) == IsAlpha(c) \/ IsDigit(c) \/ c \in {".", "-"}

\* Email.EMAIL_PATTERN
\*   ^(?=.{3,254}$)(?!.*\.\.)[A-Za-z0-9._%+-]+@[A-Za-z0-9.-]+\.[A-Za-z]{2,}$
EmailPatternMatch(s) ==
    /\ Len(s) >= EmailMinLen
    /\ Len(s) <= EmailMaxLen
    /\ ~Contains(s, <<".", ".">>)
    /\ \E at \in 2..Len(s) : \E dot \in (at + 2)..Len(s) :
          /\ s[at] = "@"
          /\ s[dot] = "."
          /\ \A i \in 1..(at - 1) : IsLocalChar(s[i])
          /\ \A i \in (at + 1)..(dot - 1) : IsDomainChar(s[i])
          /\ Len(s) - dot >= EmailMinTld
          /\ \A i \in (dot + 1)..Len(s) : IsAlpha(s[i])

\* the result of Email.validate for value.strip()
EmailChecked(cleaned) == IF EmailPatternMatch(cleaned) THEN <<cleaned>> ELSE <<>>

\* Email.validate
EmailValidate(value) == EmailChecked(Strip(value))

\* Address.validate
AddressValidate(value) == NonEmpty(Strip(value))

\* calendar (datetime)
IsLeap(y) == (y % 4 = 0) /\ ((y % 100 # 0) \/ (y % 400 = 0))

DaysInMonth(y, m) ==
    IF m = 2 THEN (IF IsLeap(y) THEN 29 ELSE 28)
    ELSE IF m \in {4, 6, 9, 11} THEN 30 ELSE 31

\* whether datetime(y, m, d) can be constructed
ValidDate(y, m, d) ==
    /\ y >= 1 /\ y <= 9999
    /\ m >= 1 /\ m <= 12
    /\ d >= 1 /\ d <= DaysInMonth(y, m)

RECURSIVE DaysBeforeMonth(_, _)
DaysBeforeMonth(y, m) ==
    IF m = 1 THEN 0 ELSE DaysBeforeMonth(y, m - 1) + DaysInMonth(y, m - 1)

\* days before January 1 of the year after p years
DaysBeforeYear(p) == p * 365 + (p \div 4) - (p \div 100) + (p \div 400)

\* date.toordinal(): 1 for 0001-01-01
Ordinal(y, m, d) == DaysBeforeYear(y - 1) + DaysBeforeMonth(y, m) + d

\* positions of "-" in s
DashPositions(s) == {i \in 1..Len(s) : s[i] = "-"}

\* datetime(y, m, d): <<>> for ValueError
MakeDate(y, m, d) == IF ValidDate(y, m, d) THEN <<[y |-> y, m |-> m, d |-> d]>> ELSE <<>>

\* the fields %Y (exactly four digits), %m and %d (one or two digits)
ParseDate(ys, ms, ds) ==
    IF /\ Len(ys) = 4 /\ AllDigits(ys)
       /\ Len(ms) \in {1, 2} /\ AllDigits(ms)
       /\ Len(ds) \in {1, 2} /\ AllDigits(ds)
    THEN MakeDate(DigitsToInt(ys), DigitsToInt(ms), DigitsToInt(ds))
    ELSE <<>>

\* the text around the two dashes at d1 < d2
DateParts(s, d1, d2) ==
    ParseDate(SubSeq(s, 1, d1 - 1), SubSeq(s, d1 + 1, d2 - 1), SubSeq(s, d2 + 1, Len(s)))

\* datetime.strptime(s, "%Y-%m-%d"): <<>> when the text does not match or
\* is no real date
Strptime(s) ==
    IF Cardinality(DashPositions(s)) # 2 THEN <<>>
    ELSE DateParts(s, MinOf(DashPositions(s)), MaxOf(DashPositions(s)))

\* Birthday.validate (for a str argument)
BirthdayValidate(value) == Strptime(Strip(value))

\* the year as %Y prints it: the C library decides whether it is padded to
\* four digits (glibc does not pad)
YearStr(y, pad) == IF pad THEN ZeroPad(IntToDigits(y), 4) ELSE IntToDigits(y)

\* Birthday.__str__: value.strftime("%Y-%m-%d")
BirthdayStr(date, pad) ==
    YearStr(date.y, pad) \o <<"-">> \o ZeroPad(IntToDigits(date.m), 2)
                         \o <<"-">> \o ZeroPad(IntToDigits(date.d), 2)

-----------------------------------------------------------------------------
(* Python dict: insertion-ordered; assigning to an existing key keeps its  *)
(* position.  A dict is a sequence of [k |-> key, v |-> value].            *)

DictHas(d, key) == \E i \in 1..Len(d) : d[i].k = key

DictIndex(d, key) == CHOOSE i \in 1..Len(d) : d[i].k = key

\* d[key] = value
DictPut(d, key, value) ==
    IF DictHas(d, key)
    THEN [d EXCEPT ![DictIndex(d, key)] = [k |-> key, v |-> value]]
    ELSE Append(d, [k |-> key, v |-> value])

\* d.get(key): <<>> for None
DictGet(d, key) == IF DictHas(d, key) THEN <<d[DictIndex(d, key)].v>> ELSE <<>>

\* the dict after d.pop(key, None)
DictPop(d, key) == SelectSeq(d, LAMBDA e : e.k # key)

\* list(d.values())
DictValues(d) == [i \in 1..Len(d) |-> d[i].v]

-----------------------------------------------------------------------------
(* record.py: ContactRecord.  A record is                                  *)
(*   [name, phones (sequence), email, address, birthday (optional values)] *)
(* and a birthday is the date [y, m, d] (a datetime at midnight).          *)

\* the list of validated phones, given the validation of each: <<>> in
\* place of the list when one of them raised
AllValid(checked) ==
    IF \E i \in 1..Len(checked) : checked[i] = <<>> THEN <<>>
    ELSE << [i \in 1..Len(checked) |-> checked[i][1]] >>

\* for phone in phones: self.add_phone(phone)
ValidatePhones(raw) == AllValid([i \in 1..Len(raw) |-> PhoneValidate(raw[i])])

\* the outcome of Field(value): ok is FALSE when validation raised
Checked(v) == IF v = <<>> THEN [ok |-> FALSE, val |-> <<>>] ELSE [ok |-> TRUE, val |-> v]

\* Field(value) if value else None, for an optional raw value
OptionalField(raw, Validate(_)) ==
    IF raw = <<>> \/ raw[1] = <<>> THEN [ok |-> TRUE, val |-> <<>>]
    ELSE Checked(Validate(raw[1]))

\* the record of the validated fields: <<>> when a field raised
BuildRecord(n, p, e, a, b) ==
    IF n = <<>> \/ ~e.ok \/ ~a.ok \/ ~b.ok \/ p = <<>> THEN <<>>
    ELSE << [name |-> n[1], phones |-> p[1], email |-> e.val,
             address |-> a.val, birthday |-> b.val] >>

\* ContactRecord.__init__: <<>> when a field raises ValidationError
NewRecord(name, phones, email, address, birthday) ==
    BuildRecord(NameValidate(name), ValidatePhones(phones),
                OptionalField(email, EmailValidate),
                OptionalField(address, AddressValidate),
                OptionalField(birthday, BirthdayValidate))

\* self.phones.append(Phone(phone)), given the outcome of Phone(phone)
AppendPhone(rec, checked) ==
    IF checked = <<>> THEN <<>> ELSE << [rec EXCEPT !.phones = Append(@, checked[1])] >>

\* ContactRecord.add_phone: <<>> when Phone(phone) raises
AddPhone(rec, phone) == AppendPhone(rec, PhoneValidate(phone))

\* self.phones[idx] = Phone(new), given the outcome of Phone(new)
ReplacePhone(rec, idx, checked) ==
    IF checked = <<>> THEN [found |-> TRUE, raised |-> TRUE, rec |-> rec]
    ELSE [found |-> TRUE, raised |-> FALSE, rec |-> [rec EXCEPT !.phones[idx] = checked[1]]]

\* ContactRecord.edit_phone: [found, raised, rec]
EditPhone(rec, old, new) ==
    IF \E i \in 1..Len(rec.phones) : rec.phones[i] = old
    THEN ReplacePhone(rec, MinOf({i \in 1..Len(rec.phones) : rec.phones[i] = old}),
                      PhoneValidate(new))
    ELSE [found |-> FALSE, raised |-> FALSE, rec |-> rec]

\* ContactRecord.set_email / set_address / set_birthday, given the outcome
\* of the field: <<>> when it raised
StoreEmail(rec, f)    == IF f.ok THEN << [rec EXCEPT !.email = f.val] >> ELSE <<>>
StoreAddress(rec, f)  == IF f.ok THEN << [rec EXCEPT !.address = f.val] >> ELSE <<>>
StoreBirthday(rec, f) == IF f.ok THEN << [rec EXCEPT !.birthday = f.val] >> ELSE <<>>

SetEmail(rec, email)       == StoreEmail(rec, OptionalField(email, EmailValidate))
SetAddress(rec, address)   == StoreAddress(rec, OptionalField(address, AddressValidate))
SetBirthday(rec, birthday) == StoreBirthday(rec, OptionalField(birthday, BirthdayValidate))

\* datetime(y, m, d) plus s seconds: the day number and the seconds of the day
Moment(y, m, d, s) == [day |-> Ordinal(y, m, d), s |-> s]

\* a < b for two datetimes
Earlier(a, b) == a.day < b.day \/ (a.day = b.day /\ a.s < b.s)

\* (birthday_date - today).days: a timedelta keeps its seconds in 0..86399,
\* so the days are rounded down
DaysBetween(now, then) ==
    [kind |-> "days", days |-> then.day - now.day - (IF then.s < now.s THEN 1 ELSE 0)]

\* the same with a replace that never raises
NextYearUnchecked(b, year, now) == DaysBetween(now, Moment(year + 1, b.m, b.d, 0))

\* birthday_date.replace(year=today.year + 1) and the difference
NextYear(b, year, now) ==
    IF ~ValidDate(year + 1, b.m, b.d) THEN [kind |-> "raise", days |-> 0]
    ELSE DaysBetween(now, Moment(year + 1, b.m, b.d, 0))

\* self.birthday.value.replace(year=today.year) and what follows
ThisYear(b, year, now) ==
    IF ~ValidDate(year, b.m, b.d) THEN [kind |-> "raise", days |-> 0]
    ELSE IF Earlier(Moment(year, b.m, b.d, 0), now) THEN NextYear(b, year, now)
    ELSE DaysBetween(now, Moment(year, b.m, b.d, 0))

\* ContactRecord.days_to_birthday(today), today a datetime [y, m, d, s]
\* (s = seconds since midnight).  kind is "none" (no birthday), "raise"
\* (datetime.replace raised ValueError) or "days".
DaysToBirthday(rec, today) ==
    IF rec.birthday = <<>> THEN [kind |-> "none", days |-> 0]
    ELSE ThisYear(rec.birthday[1], today.y, Moment(today.y, today.m, today.d, today.s))

\* ContactRecord.to_dict
ToDict(rec, pad) ==
    [name     |-> rec.name,
     phones   |-> rec.phones,
     email    |-> rec.email,
     address  |-> rec.address,
     birthday |-> IF rec.birthday = <<>> THEN <<>>
                  ELSE << BirthdayStr(rec.birthday[1], pad) >>]

\* ContactRecord.from_dict: <<>> when the constructor raises
FromDict(data) ==
    NewRecord(data.name, data.phones, data.email, data.address, data.birthday)

-----------------------------------------------------------------------------
(* address_book.py: AddressBook                                            *)

\* AddressBook.add_record
\* an add_record that keeps the name as it is written
AddRecordExact(b, rec) == DictPut(b, rec.name, rec)

AddRecord(b, rec) == DictPut(b, Lower(rec.name), rec)

\* AddressBook.get
Get(b, name) == DictGet(b, Lower(name))

\* AddressBook.remove: the book afterwards and the returned bool
Remove(b, name) ==
    [book |-> DictPop(b, Lower(name)), found |-> DictHas(b, Lower(name))]

\* the loop of AddressBook.upcoming_birthdays, given days_to_birthday of
\* each record in iteration order
Matching(b, left) ==
    [raised  |-> \E i \in 1..Len(left) : left[i].kind = "raise",
     matches |-> [i \in 1..Len(b) |-> [rec |-> b[i].v, left |-> left[i]]]]

\* the records appended to matches
InRange(m, daysAhead) ==
    [m EXCEPT !.matches = SelectSeq(@, LAMBDA e : /\ e.left.kind = "days"
                                                    /\ 0 <= e.left.days
                                                    /\ e.left.days <= daysAhead)]

\* AddressBook.upcoming_birthdays: raised when days_to_birthday raises for a
\* record, else the matching records (each with its days_to_birthday)
UpcomingBirthdays(b, daysAhead, today) ==
    InRange(Matching(b, [i \in 1..Len(b) |-> DaysToBirthday(b[i].v, today)]),
            daysAhead)

\* AddressBook.to_serializable
ToSerializable(b, pad) == [i \in 1..Len(b) |-> ToDict(b[i].v, pad)]

\* book.add_record(record) for the record ContactRecord.from_dict returned
AddLoaded(b, record) == IF b = <<>> \/ record = <<>> THEN <<>> ELSE << AddRecord(b[1], record[1]) >>

RECURSIVE LoadRecords(_, _)
\* the loop of AddressBook.from_serializable over the first n entries:
\* <<>> when an entry raises
LoadRecords(data, n) ==
    IF n = 0 THEN << <<>> >>
    ELSE AddLoaded(LoadRecords(data, n - 1), FromDict(data[n]))

\* AddressBook.from_serializable
FromSerializable(data) == LoadRecords(data, Len(data))

-----------------------------------------------------------------------------
(* notes.py: Note and Notebook.  A note is [title, content, tags (a set)]. *)

\* elements of a sequence
Range(seq) == {seq[i] : i \in 1..Len(seq)}

\* min(S) for a non-empty set of strings
LeastString(S) == CHOOSE x \in S : \A y \in S : x = y \/ StrLess(x, y)

RECURSIVE SortedFrom(_, _)
SortedFrom(S, least) ==
    IF S = {least} THEN <<least>>
    ELSE <<least>> \o SortedFrom(S \ {least}, LeastString(S \ {least}))

\* sorted(S) for a set of strings
SortedStrings(S) == IF S = {} THEN <<>> ELSE SortedFrom(S, LeastString(S))

\* the same set with the case of the tags kept
NormalTagsAsTyped(stripped) == {u \in stripped : u # <<>>}

\* {tag.strip().lower() for tag in new_tags if tag.strip()}
NormalTags(stripped) == {Lower(t) : t \in {u \in stripped : u # <<>>}}

\* Note.add_tags
AddTags(note, newTags) ==
    [note EXCEPT !.tags = @ \cup NormalTags({Strip(t) : t \in Range(newTags)})]

\* Note.remove_tag for the normalised tag: the note afterwards and the
\* returned bool
DropTag(note, t) == [note |-> [note EXCEPT !.tags = @ \ {t}], found |-> t \in note.tags]

\* Note.remove_tag
RemoveTag(note, tag) == DropTag(note, Lower(Strip(tag)))

\* Note.to_dict
NoteToDict(note) ==
    [title |-> note.title, content |-> note.content, tags |-> SortedStrings(note.tags)]

\* Note.from_dict
NoteFromDict(data) ==
    [title |-> data.title, content |-> data.content, tags |-> Range(data.tags)]

\* Notebook.add
NotebookAdd(nb, note) == DictPut(nb, Lower(note.title), note)

\* Notebook.get
NotebookGet(nb, title) == DictGet(nb, Lower(title))

\* Notebook.remove: the notebook afterwards and the returned bool
NotebookRemove(nb, title) ==
    [notebook |-> DictPop(nb, Lower(title)), found |-> DictHas(nb, Lower(title))]

\* a < b for Python lists of strings
ListLess(a, b) ==
    \E k \in 0..Len(a) :
        /\ k <= Len(b)
        /\ SubSeq(a, 1, k) = SubSeq(b, 1, k)
        /\ \/ (k = Len(a) /\ k < Len(b))
           \/ (k < Len(a) /\ k < Len(b) /\ StrLess(a[k + 1], b[k + 1]))

\* sorted(note.tags) or [""]
TagListOr(tagList) == IF tagList = <<>> THEN << <<>> >> ELSE tagList

\* a tag_key that keeps the case of the title
TagKeyExact(note) == [tags |-> TagListOr(SortedStrings(note.tags)), title |-> note.title]

\* tag_key(note) of Notebook.sorted_by_tags
TagKey(note) == [tags |-> TagListOr(SortedStrings(note.tags)), title |-> Lower(note.title)]

\* x < y for the tuples tag_key returns
KeyLess(x, y) ==
    \/ ListLess(x.tags, y.tags)
    \/ (x.tags = y.tags /\ StrLess(x.title, y.title))

\* the list with x inserted after position pos
InsertAt(list, pos, x) == SubSeq(list, 1, pos) \o <<x>> \o SubSeq(list, pos + 1, Len(list))

\* the last position whose key is not greater than key (0 when none)
LastNotGreater(keys, key) ==
    IF \E i \in 1..Len(keys) : ~KeyLess(key, keys[i])
    THEN MaxOf({i \in 1..Len(keys) : ~KeyLess(key, keys[i])})
    ELSE 0

\* insertion of one keyed note into a sorted list
InsertSorted(sortedNotes, e) ==
    InsertAt(sortedNotes,
             LastNotGreater([i \in 1..Len(sortedNotes) |-> sortedNotes[i].key], e.key), e)

RECURSIVE SortKeyed(_, _)
\* sorted() over the first n of the keyed notes: insertion after every note
\* whose key is not greater (sorted() is stable)
SortKeyed(keyed, n) ==
    IF n = 0 THEN <<>>
    ELSE InsertSorted(SortKeyed(keyed, n - 1), keyed[n])

\* sorted(notes, key=tag_key)
SortNotes(notes) ==
    DictValues(SortKeyed([i \in 1..Len(notes) |-> [key |-> TagKey(notes[i]), v |-> notes[i]]],
                         Len(notes)))

\* Notebook.sorted_by_tags
SortedByTags(nb) == SortNotes(DictValues(nb))

\* Notebook.to_serializable
NotebookToSerializable(nb) == [i \in 1..Len(nb) |-> NoteToDict(nb[i].v)]

RECURSIVE LoadNotes(_, _)
\* the loop of Notebook.from_serializable over the first n entries
LoadNotes(data, n) ==
    IF n = 0 THEN <<>>
    ELSE NotebookAdd(LoadNotes(data, n - 1), NoteFromDict(data[n]))

\* Notebook.from_serializable
NotebookFromSerializable(data) == LoadNotes(data, Len(data))

-----------------------------------------------------------------------------
(* commands.py: argument parsing                                           *)

DQ == "\""

\* shlex.split(s) for text of spaces, double quotes and other characters
\* (no backslash, no single quote).  A double quote opens or closes a quoted
\* stretch and is dropped; a space outside quotes ends a token; a token may
\* be empty ("").  ok is FALSE for ValueError("No closing quotation").
Quotes(s, i) == Cardinality({j \in 1..i : s[j] = DQ})

\* whether s[i] is a space outside double quotes
Separates(s, i) == IsSpace(s[i]) /\ Quotes(s, i) % 2 = 0

\* the token that starts at from: it runs to the next separator
TokenAt(s, seps, from) ==
    SelectSeq(SubSeq(s, from, IF \E k \in seps : k > from
                              THEN MinOf({k \in seps : k > from}) - 1
                              ELSE Len(s)),
              LAMBDA c : c # DQ)

RECURSIVE TokensFrom(_, _, _)
\* the tokens that start at the positions starts, in ascending order
TokensFrom(s, seps, starts) ==
    IF starts = {} THEN <<>>
    ELSE <<TokenAt(s, seps, MinOf(starts))>> \o TokensFrom(s, seps, starts \ {MinOf(starts)})

\* the tokens of s, given the positions of its separators
TokensBetween(s, seps) ==
    TokensFrom(s, seps, {i \in 1..Len(s) : i \notin seps /\ (i = 1 \/ (i - 1) \in seps)})

ShlexSplit(s) ==
    IF Quotes(s, Len(s)) % 2 = 1 THEN [ok |-> FALSE, tokens |-> <<>>]
    ELSE [ok |-> TRUE, tokens |-> TokensBetween(s, {i \in 1..Len(s) : Separates(s, i)})]

\* index of the first occurrence of character c in s (0 when absent)
FirstIndex(s, c) ==
    IF \E i \in 1..Len(s) : s[i] = c THEN MinOf({i \in 1..Len(s) : s[i] = c}) ELSE 0

\* s.split(c, maxsplit=1) when c occurs in s
SplitBefore(s, c) == SubSeq(s, 1, FirstIndex(s, c) - 1)
SplitAfter(s, c)  == SubSeq(s, FirstIndex(s, c) + 1, Len(s))

\* pairs[key.strip().lower()] = value.strip() for a token with "="
PutPair(pairs, token) ==
    IF FirstIndex(token, "=") = 0 THEN pairs
    ELSE DictPut(pairs, Lower(Strip(SplitBefore(token, "="))), Strip(SplitAfter(token, "=")))

RECURSIVE ParseFirst(_, _)
\* the loop of parse_key_value_args over the first n tokens
ParseFirst(tokens, n) ==
    IF n = 0 THEN <<>> ELSE PutPair(ParseFirst(tokens, n - 1), tokens[n])

\* parse_key_value_args
ParseKeyValueArgs(tokens) == ParseFirst(tokens, Len(tokens))

KeyPhone      == <<"p","h","o","n","e">>
KeyEmail      == <<"e","m","a","i","l">>
KeyAddress    == <<"a","d","d","r","e","s","s">>
KeyBirthday   == <<"b","i","r","t","h","d","a","y">>
KeyContent    == <<"c","o","n","t","e","n","t">>
KeyTags       == <<"t","a","g","s">>
KeyAddTags    == <<"a","d","d","_","t","a","g","s">>
KeyRemoveTags == <<"r","e","m","o","v","e","_","t","a","g","s">>

\* kv_args.get(key) as an optional raw value
KvGet(kv, key) == DictGet(kv, key)

\* [value for key, value in kv_args.items() if key.startswith("phone")]
PhoneValues(kv) == DictValues(SelectSeq(kv, LAMBDA e : StartsWith(e.k, KeyPhone)))

\* int(text) for stripped text of the model (decimal digits): <<>> for ValueError
IntOf(t) == IF t # <<>> /\ AllDigits(t) THEN <<DigitsToInt(t)>> ELSE <<>>

\* int(s.strip())
IntParse(s) == IntOf(Strip(s))

RECURSIVE SplitOn(_, _)
\* s.split(c)
SplitOn(s, c) ==
    IF FirstIndex(s, c) = 0 THEN <<s>>
    ELSE <<SplitBefore(s, c)>> \o SplitOn(SplitAfter(s, c), c)

-----------------------------------------------------------------------------
(* commands.py: handlers.  A handler returns                                *)
(*   [book, notebook  the collections after it ran,                        *)
(*    save            whether it reached storage.save,                     *)
(*    kind            "message" (CommandResult), "error" (CommandError),   *)
(*                    "unexpected" (any other exception),                  *)
(*    tag             which message or exception,                          *)
(*    listing         the lines of a listing,                              *)
(*    exit            CommandResult.should_exit]                           *)

Result(bk, nb, save, kind, tag) ==
    [book |-> bk, notebook |-> nb, save |-> save, kind |-> kind, tag |-> tag,
     listing |-> <<>>, exit |-> FALSE]

\* require_name: <<>> when it raises CommandError
RequireName(argumentString) == NonEmpty(Strip(argumentString))

\* ContactRecord(name=name, phones=[...], email=kv_args.get("email"), ...)
RecordFromArgs(name, kv) ==
    NewRecord(name, PhoneValues(kv), KvGet(kv, KeyEmail), KvGet(kv, KeyAddress),
              KvGet(kv, KeyBirthday))

\* add_contact from the record on: add_record, save
AddContactRecord(bk, nb, record) ==
    IF record = <<>> THEN Result(bk, nb, FALSE, "unexpected", "ValidationError")
    ELSE Result(AddRecord(bk, record[1]), nb, TRUE, "message", "added")

\* add_contact from the tokens on
AddContactTokens(bk, nb, sp) ==
    IF ~sp.ok THEN Result(bk, nb, FALSE, "unexpected", "ValueError")
    ELSE AddContactRecord(bk, nb,
                          RecordFromArgs(sp.tokens[1], ParseKeyValueArgs(Tail(sp.tokens))))

\* add_contact
AddContact(bk, nb, arguments) ==
    IF arguments = <<>> THEN Result(bk, nb, FALSE, "error", "usage")
    ELSE AddContactTokens(bk, nb, ShlexSplit(arguments))

\* show_contact from the name on
ShowNamed(bk, nb, name) ==
    IF name = <<>> THEN Result(bk, nb, FALSE, "error", "name required")
    ELSE IF Get(bk, name[1]) = <<>> THEN Result(bk, nb, FALSE, "error", "not found")
    ELSE Result(bk, nb, FALSE, "message", "shown")

\* show_contact
ShowContact(bk, nb, arguments) == ShowNamed(bk, nb, RequireName(arguments))

\* the record after a setter, or raised when it raised ValidationError
Outcome(rec, after) ==
    IF after = <<>> THEN [rec |-> rec, raised |-> TRUE]
    ELSE [rec |-> after[1], raised |-> FALSE]

\* the outcome of record.edit_phone(old, new)
Edited(e) == [rec |-> e.rec, raised |-> e.raised]

\* one iteration of the loop of edit_contact over updates.items()
ApplyUpdate(rec, key, value) ==
    IF StartsWith(key, KeyPhone)
    THEN IF FirstIndex(value, ":") # 0
         THEN Edited(EditPhone(rec, SplitBefore(value, ":"), SplitAfter(value, ":")))
         ELSE Outcome(rec, AddPhone(rec, value))
    ELSE IF key = KeyEmail THEN Outcome(rec, SetEmail(rec, <<value>>))
    ELSE IF key = KeyAddress THEN Outcome(rec, SetAddress(rec, <<value>>))
    ELSE IF key = KeyBirthday THEN Outcome(rec, SetBirthday(rec, <<value>>))
    ELSE [rec |-> rec, raised |-> FALSE]

\* the next iteration, unless an earlier one raised
ThenUpdate(sofar, update) ==
    IF sofar.raised THEN sofar ELSE ApplyUpdate(sofar.rec, update.k, update.v)

RECURSIVE ApplyFirst(_, _, _)
\* the loop of edit_contact over the first n updates: it mutates the record
\* in place and stops at the first ValidationError
ApplyFirst(rec, updates, n) ==
    IF n = 0 THEN [rec |-> rec, raised |-> FALSE]
    ELSE ThenUpdate(ApplyFirst(rec, updates, n - 1), updates[n])

ApplyUpdates(rec, updates) == ApplyFirst(rec, updates, Len(updates))

\* edit_contact after the loop: the record was mutated in place
EditContactDone(bk, nb, key, done) ==
    IF done.raised THEN Result(DictPut(bk, key, done.rec), nb, FALSE, "error", "ValidationError")
    ELSE Result(DictPut(bk, key, done.rec), nb, TRUE, "message", "updated")

\* edit_contact from the updates on
EditContactUpdates(bk, nb, name, record, updates) ==
    IF updates = <<>> THEN Result(bk, nb, FALSE, "error", "no fields")
    ELSE EditContactDone(bk, nb, Lower(name), ApplyUpdates(record, updates))

\* edit_contact from the tokens on
EditContactTokens(bk, nb, sp) ==
    IF ~sp.ok THEN Result(bk, nb, FALSE, "unexpected", "ValueError")
    ELSE IF sp.tokens = <<>> THEN Result(bk, nb, FALSE, "error", "usage")
    ELSE IF Get(bk, sp.tokens[1]) = <<>> THEN Result(bk, nb, FALSE, "error", "not found")
    ELSE EditContactUpdates(bk, nb, sp.tokens[1], Get(bk, sp.tokens[1])[1],
                            ParseKeyValueArgs(Tail(sp.tokens)))

\* edit_contact
EditContact(bk, nb, arguments) == EditContactTokens(bk, nb, ShlexSplit(arguments))

\* delete_contact from address_book.remove(name) on
DeleteContactDone(bk, nb, r) ==
    IF r.found THEN Result(r.book, nb, TRUE, "message", "deleted")
    ELSE Result(bk, nb, FALSE, "error", "not found")

\* delete_contact from the name on
DeleteNamed(bk, nb, name) ==
    IF name = <<>> THEN Result(bk, nb, FALSE, "error", "name required")
    ELSE DeleteContactDone(bk, nb, Remove(bk, name[1]))

\* delete_contact
DeleteContact(bk, nb, arguments) == DeleteNamed(bk, nb, RequireName(arguments))

\* list_contacts
ListContacts(bk, nb, arguments) == Result(bk, nb, FALSE, "message", "contacts")

\* search_contacts
SearchContacts(bk, nb, arguments) ==
    IF Strip(arguments) = <<>> THEN Result(bk, nb, FALSE, "error", "usage")
    ELSE Result(bk, nb, FALSE, "message", "matches")

\* upcoming_birthdays from address_book.upcoming_birthdays on: one line for
\* each result, with record.days_to_birthday(today=today)
BirthdayLines(bk, nb, results) ==
    IF results.raised THEN Result(bk, nb, FALSE, "unexpected", "ValueError")
    ELSE IF results.matches = <<>> THEN Result(bk, nb, FALSE, "message", "no birthdays")
    ELSE [Result(bk, nb, FALSE, "message", "birthdays") EXCEPT
            !.listing = [i \in 1..Len(results.matches) |->
                           [name |-> results.matches[i].rec.name,
                            days |-> results.matches[i].left.days]]]

\* upcoming_birthdays from days on
BirthdaysWithin(bk, nb, days, today) ==
    IF days = <<>> THEN Result(bk, nb, FALSE, "error", "usage")
    ELSE BirthdayLines(bk, nb, UpcomingBirthdays(bk, days[1], today))

\* upcoming_birthdays, with today the value datetime.today() returns
UpcomingBirthdaysCmd(bk, nb, arguments, today) ==
    BirthdaysWithin(bk, nb, IntParse(arguments), today)

-----------------------------------------------------------------------------
(* commands.py suggest_command, with difflib.get_close_matches of the       *)
(* standard library as it computes: SequenceMatcher(a = name, b = word)     *)
(* without junk (the strings are shorter than 200 characters).             *)
(* A slice a[alo:ahi] is given by the positions alo..(ahi - 1), from 1.    *)

RECURSIVE RunLength(_, _, _, _, _, _)
\* the number of positions from i in a and j in b, inside the slices, that
\* hold equal characters
RunLength(a, b, i, j, ahi, bhi) ==
    IF i < ahi /\ j < bhi /\ a[i] = b[j]
    THEN 1 + RunLength(a, b, i + 1, j + 1, ahi, bhi)
    ELSE 0

\* the matching blocks <<i, j, k>> of the two slices that cannot be
\* extended to the right
Runs(a, b, alo, ahi, blo, bhi) ==
    {<<p[1], p[2], RunLength(a, b, p[1], p[2], ahi, bhi)>> :
        p \in {q \in (alo..(ahi - 1)) \X (blo..(bhi - 1)) : a[q[1]] = b[q[2]]}}

\* of the blocks of length k the one that starts earliest in a, and of
\* those the one that starts earliest in b
EarliestOf(blocks) ==
    CHOOSE t \in blocks :
        \A u \in blocks : t[1] < u[1] \/ (t[1] = u[1] /\ t[2] <= u[2])

LongestOf(runs) ==
    IF runs = {} THEN <<0, 0, 0>>
    ELSE EarliestOf({t \in runs : \A u \in runs : u[3] <= t[3]})

\* SequenceMatcher.find_longest_match(alo, ahi, blo, bhi): <<i, j, k>> with
\* k = 0 when the slices share no character
FindLongestMatch(a, b, alo, ahi, blo, bhi) == LongestOf(Runs(a, b, alo, ahi, blo, bhi))

RECURSIVE MatchingFrom(_, _, _, _, _, _, _)
\* get_matching_blocks from one popped (alo, ahi, blo, bhi) and its longest
\* match x on: the sum of the sizes of the blocks found in it
MatchingFrom(a, b, alo, ahi, blo, bhi, x) ==
    IF x[3] = 0 THEN 0
    ELSE x[3]
         + (IF alo < x[1] /\ blo < x[2]
            THEN MatchingFrom(a, b, alo, x[1], blo, x[2],
                              FindLongestMatch(a, b, alo, x[1], blo, x[2]))
            ELSE 0)
         + (IF x[1] + x[3] < ahi /\ x[2] + x[3] < bhi
            THEN MatchingFrom(a, b, x[1] + x[3], ahi, x[2] + x[3], bhi,
                              FindLongestMatch(a, b, x[1] + x[3], ahi, x[2] + x[3], bhi))
            ELSE 0)

\* matches of SequenceMatcher.ratio: sum(triple[-1] for triple in
\* self.get_matching_blocks())
Matches(a, b) ==
    MatchingFrom(a, b, 1, Len(a) + 1, 1, Len(b) + 1,
                 FindLongestMatch(a, b, 1, Len(a) + 1, 1, Len(b) + 1))

\* the cutoff of get_close_matches in suggest_command, 0.5, as a fraction
CutoffNum == 1
CutoffDen == 2

\* ratio() >= cutoff, for ratio() = 2.0 * matches / (len(a) + len(b)); the
\* quick ratios are upper bounds of ratio() and reject nothing more
AtLeastCutoff(matches, length) ==
    IF length = 0 THEN TRUE ELSE 2 * matches * CutoffDen >= CutoffNum * length

\* one entry (s.ratio(), x) of result, the ratio kept as matches / length
Scored(word, x) == [x |-> x, m |-> Matches(x, word), n |-> Len(x) + Len(word)]

\* result of get_close_matches: the possibilities that reach the cutoff
CloseEntries(word, possibilities) ==
    {e \in {Scored(word, possibilities[i]) : i \in 1..Len(possibilities)} :
        AtLeastCutoff(e.m, e.n)}

\* (score, x) < (score, y) as Python compares the tuples
EntryLess(e, f) ==
    \/ e.m * f.n < f.m * e.n
    \/ (e.m * f.n = f.m * e.n /\ StrLess(e.x, f.x))

\* _nlargest(1, result), scores stripped: nothing or the best scorer
Largest(entries) ==
    IF entries = {} THEN <<>>
    ELSE <<(CHOOSE e \in entries : \A f \in entries : f = e \/ EntryLess(f, e)).x>>

\* get_close_matches(word, possibilities, n=1, cutoff=0.5)
GetCloseMatches(word, possibilities) == Largest(CloseEntries(word, possibilities))

\* the positions where a word of text starts, and where one ends
WordStarts(text) ==
    {i \in 1..Len(text) : ~IsSpace(text[i]) /\ (i = 1 \/ IsSpace(text[i - 1]))}
WordEnds(text) ==
    {i \in 1..Len(text) : ~IsSpace(text[i]) /\ (i = Len(text) \/ IsSpace(text[i + 1]))}

\* the n-th member of a set of numbers, in ascending order
NthOf(S, n) == CHOOSE i \in S : Cardinality({j \in S : j < i}) = n - 1

\* str.split() without arguments
SplitWords(text) ==
    [n \in 1..Cardinality(WordStarts(text)) |->
        SubSeq(text, NthOf(WordStarts(text), n), NthOf(WordEnds(text), n))]

RECURSIVE JoinFirst(_, _)
\* " ".join(words[:n]) for 1 <= n <= len(words)
JoinFirst(words, n) ==
    IF n = 1 THEN words[1] ELSE JoinFirst(words, n - 1) \o <<" ">> \o words[n]

\* the most words of the input that suggest_command tries as a command
MaxWordCount == 4

\* the loop of suggest_command taken in ascending order of word_count
RECURSIVE TryUp(_, _, _, _)
TryUp(words, names, n, last) ==
    IF n > last THEN <<>>
    ELSE IF GetCloseMatches(JoinFirst(words, n), names) # <<>>
    THEN GetCloseMatches(JoinFirst(words, n), names)
    ELSE TryUp(words, names, n + 1, last)

RECURSIVE TryWordCounts(_, _, _)
\* for word_count in range(n, 0, -1): the first match, or None
TryWordCounts(words, names, n) ==
    IF n = 0 THEN <<>>
    ELSE IF GetCloseMatches(JoinFirst(words, n), names) # <<>>
    THEN GetCloseMatches(JoinFirst(words, n), names)
    ELSE TryWordCounts(words, names, n - 1)

\* suggest_command with the shortest partial command tried first
SuggestShortestFirst(words, names) ==
    IF Len(words) > 1
    THEN TryUp(words, names, 1, IF Len(words) < MaxWordCount THEN Len(words) ELSE MaxWordCount)
    ELSE <<>>

\* suggest_command from words = user_input.split() on
SuggestPartial(words, names) ==
    IF Len(words) > 1
    THEN TryWordCounts(words, names,
                       IF Len(words) < MaxWordCount THEN Len(words) ELSE MaxWordCount)
    ELSE <<>>

\* suggest_command(user_input, command_map) where names are the keys of
\* command_map: <<>> for None, else <<the suggested name>>
SuggestCommand(userInput, names) ==
    IF userInput = <<>> THEN <<>>
    ELSE IF GetCloseMatches(userInput, names) # <<>> THEN GetCloseMatches(userInput, names)
    ELSE SuggestPartial(SplitWords(userInput), names)
\* the value of kv_args.get(key, "")
OrEmpty(got) == IF got = <<>> THEN <<>> ELSE got[1]
KvGetOrEmpty(kv, key) == OrEmpty(DictGet(kv, key))

\* (tag.strip() for tag in text.split(","))
Stripped(parts) == [i \in 1..Len(parts) |-> Strip(parts[i])]
TagList(text) == Stripped(SplitOn(text, ","))

\* note.add_tags(...) if tags
TaggedNote(note, tags) == IF tags # <<>> THEN AddTags(note, TagList(tags)) ELSE note

\* Note(title=title, content=content) and the tags of add_note
NoteFromArgs(title, kv) ==
    TaggedNote([title |-> title, content |-> KvGetOrEmpty(kv, KeyContent), tags |-> {}],
               KvGetOrEmpty(kv, KeyTags))

\* add_note from the tokens on
AddNoteTokens(bk, nb, sp) ==
    IF ~sp.ok THEN Result(bk, nb, FALSE, "unexpected", "ValueError")
    ELSE IF sp.tokens = <<>> THEN Result(bk, nb, FALSE, "error", "usage")
    ELSE Result(bk, NotebookAdd(nb, NoteFromArgs(sp.tokens[1], ParseKeyValueArgs(Tail(sp.tokens)))),
                TRUE, "message", "added")

\* add_note
AddNote(bk, nb, arguments) == AddNoteTokens(bk, nb, ShlexSplit(arguments))

RECURSIVE RemoveFirst(_, _, _)
\* for tag in kv_args["remove_tags"].split(","): note.remove_tag(tag)
RemoveFirst(note, tags, n) ==
    IF n = 0 THEN note ELSE RemoveTag(RemoveFirst(note, tags, n - 1), tags[n]).note

RemoveTags(note, tags) == RemoveFirst(note, tags, Len(tags))

\* the three steps of edit_note on the note
EditContent(note, kv) ==
    IF DictHas(kv, KeyContent) THEN [note EXCEPT !.content = DictGet(kv, KeyContent)[1]] ELSE note
EditAddTags(note, kv) ==
    IF DictHas(kv, KeyAddTags) THEN AddTags(note, TagList(DictGet(kv, KeyAddTags)[1])) ELSE note
EditRemoveTags(note, kv) ==
    IF DictHas(kv, KeyRemoveTags)
    THEN RemoveTags(note, SplitOn(DictGet(kv, KeyRemoveTags)[1], ",")) ELSE note

\* edit_note from kv_args on: the note is mutated in place
EditNoteArgs(bk, nb, key, note, kv) ==
    Result(bk, DictPut(nb, key, EditRemoveTags(EditAddTags(EditContent(note, kv), kv), kv)),
           TRUE, "message", "updated")

\* edit_note from the tokens on
EditNoteTokens(bk, nb, sp) ==
    IF ~sp.ok THEN Result(bk, nb, FALSE, "unexpected", "ValueError")
    ELSE IF sp.tokens = <<>> THEN Result(bk, nb, FALSE, "error", "usage")
    ELSE IF NotebookGet(nb, sp.tokens[1]) = <<>> THEN Result(bk, nb, FALSE, "error", "not found")
    ELSE EditNoteArgs(bk, nb, Lower(sp.tokens[1]), NotebookGet(nb, sp.tokens[1])[1],
                      ParseKeyValueArgs(Tail(sp.tokens)))

\* edit_note
EditNote(bk, nb, arguments) == EditNoteTokens(bk, nb, ShlexSplit(arguments))

\* delete_note from notebook.remove(title) on
DeleteNoteDone(bk, nb, r) ==
    IF r.found THEN Result(bk, r.notebook, TRUE, "message", "deleted")
    ELSE Result(bk, nb, FALSE, "error", "not found")

\* delete_note from the tokens on
DeleteNoteTokens(bk, nb, sp) ==
    IF ~sp.ok THEN Result(bk, nb, FALSE, "unexpected", "ValueError")
    ELSE IF sp.tokens = <<>> THEN Result(bk, nb, FALSE, "error", "usage")
    ELSE DeleteNoteDone(bk, nb, NotebookRemove(nb, sp.tokens[1]))

\* delete_note
DeleteNote(bk, nb, arguments) == DeleteNoteTokens(bk, nb, ShlexSplit(arguments))

\* show_note from the tokens on
ShowNoteTokens(bk, nb, sp) ==
    IF ~sp.ok THEN Result(bk, nb, FALSE, "unexpected", "ValueError")
    ELSE IF sp.tokens = <<>> THEN Result(bk, nb, FALSE, "error", "usage")
    ELSE IF NotebookGet(nb, sp.tokens[1]) = <<>> THEN Result(bk, nb, FALSE, "error", "not found")
    ELSE Result(bk, nb, FALSE, "message", "shown")

\* show_note
ShowNote(bk, nb, arguments) == ShowNoteTokens(bk, nb, ShlexSplit(arguments))

\* list_notes
ListNotes(bk, nb, arguments) == Result(bk, nb, FALSE, "message", "notes")

\* search_notes
SearchNotes(bk, nb, arguments) ==
    IF Strip(arguments) = <<>> THEN Result(bk, nb, FALSE, "error", "usage")
    ELSE Result(bk, nb, FALSE, "message", "matches")

\* search_notes_by_tag
SearchNotesByTag(bk, nb, arguments) ==
    IF Strip(arguments) = <<>> THEN Result(bk, nb, FALSE, "error", "usage")
    ELSE Result(bk, nb, FALSE, "message", "tagged")

\* sort_notes_by_tags from the sorted notes on: they are the listing
SortedListing(bk, nb, notes) ==
    IF notes = <<>> THEN Result(bk, nb, FALSE, "message", "no notes")
    ELSE [Result(bk, nb, FALSE, "message", "sorted") EXCEPT !.listing = notes]

\* sort_notes_by_tags
SortNotesByTags(bk, nb, arguments) == SortedListing(bk, nb, SortedByTags(nb))

\* exit_command
ExitCommand(bk, nb, arguments) ==
    [Result(bk, nb, FALSE, "message", "goodbye") EXCEPT !.exit = TRUE]

-----------------------------------------------------------------------------
(* commands.py build_command_map and cli.py CommandRegistry                *)

CmdAddContact          == <<"a","d","d"," ","c","o","n","t","a","c","t">>
CmdListContacts        == <<"l","i","s","t"," ","c","o","n","t","a","c","t","s">>
CmdShowContact         == <<"s","h","o","w"," ","c","o","n","t","a","c","t">>
CmdEditContact         == <<"e","d","i","t"," ","c","o","n","t","a","c","t">>
CmdDeleteContact       == <<"d","e","l","e","t","e"," ","c","o","n","t","a","c","t">>
CmdSearchContacts      == <<"s","e","a","r","c","h"," ","c","o","n","t","a","c","t","s">>
CmdUpcomingBirthdays   == <<"u","p","c","o","m","i","n","g"," ","b","i","r","t","h","d","a","y","s">>
CmdAddNote             == <<"a","d","d"," ","n","o","t","e">>
CmdListNotes           == <<"l","i","s","t"," ","n","o","t","e","s">>
CmdShowNote            == <<"s","h","o","w"," ","n","o","t","e">>
CmdEditNote            == <<"e","d","i","t"," ","n","o","t","e">>
CmdDeleteNote          == <<"d","e","l","e","t","e"," ","n","o","t","e">>
CmdSearchNotes         == <<"s","e","a","r","c","h"," ","n","o","t","e","s">>
CmdSearchNotesByTag    == <<"s","e","a","r","c","h"," ","n","o","t","e","s"," ","b","y"," ","t","a","g">>
CmdSortNotesByTags     == <<"s","o","r","t"," ","n","o","t","e","s"," ","b","y"," ","t","a","g","s">>
CmdExit                == <<"e","x","i","t">>
CmdQuit                == <<"q","u","i","t">>

\* build_command_map(): the registered names in registration order
CommandNames ==
    <<CmdAddContact, CmdListContacts, CmdShowContact, CmdEditContact,
      CmdDeleteContact, CmdSearchContacts, CmdUpcomingBirthdays, CmdAddNote,
      CmdListNotes, CmdShowNote, CmdEditNote, CmdDeleteNote,
      CmdSearchNotes, CmdSearchNotesByTag, CmdSortNotesByTags, CmdExit,
      CmdQuit>>

\* the last position whose name is at least as long as name (0 when none)
LastNotShorter(sortedNames, name) ==
    IF \E i \in 1..Len(sortedNames) : Len(sortedNames[i]) >= Len(name)
    THEN MaxOf({i \in 1..Len(sortedNames) : Len(sortedNames[i]) >= Len(name)})
    ELSE 0

\* insertion of a name into a list sorted by descending length, after every
\* name that is at least as long (sorted() is stable, also with reverse=True)
InsertByLen(sortedNames, name) == InsertAt(sortedNames, LastNotShorter(sortedNames, name), name)

RECURSIVE SortFirst(_, _)
SortFirst(names, n) ==
    IF n = 0 THEN <<>> ELSE InsertByLen(SortFirst(names, n - 1), names[n])

\* the names in the order of registration, not sorted
SortAsGiven(names) == names

\* sorted(names, key=len, reverse=True)
SortByLenDesc(names) == SortFirst(names, Len(names))

\* the return of resolve for the first name of ordered that matched
Matched(normalized, name) ==
    [found     |-> TRUE,
     name      |-> name,
     arguments |-> Strip(SubSeq(normalized, Len(name) + 1, Len(normalized)))]

\* the same loop for names that must end where the input ends or a blank
\* follows
FirstWholeMatch(ordered, normalized, lowered) ==
    IF \E i \in 1..Len(ordered) : StartsWith(lowered \o <<" ">>, ordered[i] \o <<" ">>)
    THEN Matched(normalized,
                 ordered[MinOf({i \in 1..Len(ordered) :
                                   StartsWith(lowered \o <<" ">>, ordered[i] \o <<" ">>)})])
    ELSE [found |-> FALSE, name |-> <<>>, arguments |-> <<>>]

\* the loop of resolve: the first command_name with lowered.startswith(it)
FirstMatch(ordered, normalized, lowered) ==
    IF \E i \in 1..Len(ordered) : StartsWith(lowered, ordered[i])
    THEN Matched(normalized,
                 ordered[MinOf({i \in 1..Len(ordered) : StartsWith(lowered, ordered[i])})])
    ELSE [found |-> FALSE, name |-> <<>>, arguments |-> <<>>]

\* resolve from normalized = user_input.strip() on
ResolveNormalized(ordered, normalized) == FirstMatch(ordered, normalized, Lower(normalized))

\* CommandRegistry.resolve for a command map with these names: found is
\* FALSE for KeyError, else the command name and the argument string
ResolveIn(names, userInput) == ResolveNormalized(SortByLenDesc(names), Strip(userInput))

\* sorted(self.command_map.keys(), key=len, reverse=True) for the command
\* map of build_command_map
SortedCommandNames == SortByLenDesc(CommandNames)

\* CommandRegistry.resolve with the command map of build_command_map
Resolve(userInput) == ResolveNormalized(SortedCommandNames, Strip(userInput))

\* handler(self.context, arguments) for the handler registered under name
RunHandler(name, bk, nb, arguments, today) ==
    CASE name = CmdAddContact        -> AddContact(bk, nb, arguments)
      [] name = CmdListContacts      -> ListContacts(bk, nb, arguments)
      [] name = CmdShowContact       -> ShowContact(bk, nb, arguments)
      [] name = CmdEditContact       -> EditContact(bk, nb, arguments)
      [] name = CmdDeleteContact     -> DeleteContact(bk, nb, arguments)
      [] name = CmdSearchContacts    -> SearchContacts(bk, nb, arguments)
      [] name = CmdUpcomingBirthdays -> UpcomingBirthdaysCmd(bk, nb, arguments, today)
      [] name = CmdAddNote           -> AddNote(bk, nb, arguments)
      [] name = CmdListNotes         -> ListNotes(bk, nb, arguments)
      [] name = CmdShowNote          -> ShowNote(bk, nb, arguments)
      [] name = CmdEditNote          -> EditNote(bk, nb, arguments)
      [] name = CmdDeleteNote        -> DeleteNote(bk, nb, arguments)
      [] name = CmdSearchNotes       -> SearchNotes(bk, nb, arguments)
      [] name = CmdSearchNotesByTag  -> SearchNotesByTag(bk, nb, arguments)
      [] name = CmdSortNotesByTags   -> SortNotesByTags(bk, nb, arguments)
      [] name = CmdExit              -> ExitCommand(bk, nb, arguments)
      [] name = CmdQuit              -> ExitCommand(bk, nb, arguments)

-----------------------------------------------------------------------------
(* storage.py: Storage, and cli.py: PersonalAssistantCLI.run               *)

\* Storage.save.  mode is "ok", "fail_contacts" (opening contacts.json
\* raises OSError: nothing is written) or "fail_notes" (contacts.json is
\* written, then opening notes.json raises OSError).
Save(bk, nb, cf, nf, mode, pad) ==
    IF mode = "fail_contacts" THEN [contactsFile |-> cf, notesFile |-> nf, raised |-> TRUE]
    ELSE IF mode = "fail_notes"
    THEN [contactsFile |-> ToSerializable(bk, pad), notesFile |-> nf, raised |-> TRUE]
    ELSE [contactsFile |-> ToSerializable(bk, pad),
          notesFile |-> NotebookToSerializable(nb), raised |-> FALSE]

Printed(kind, tag, listing) == [kind |-> kind, tag |-> tag, listing |-> listing]

WordHelp     == <<"h","e","l","p">>
WordH        == <<"h">>
WordCommands == <<"c","o","m","m","a","n","d","s">>
WordQuestion == <<"?">>

\* the loop goes on without calling a handler
Continue(bk, nb, cf, nf, printed) ==
    [book |-> bk, notebook |-> nb, contactsFile |-> cf, notesFile |-> nf,
     out |-> printed, running |-> TRUE, save |-> "none"]

\* the same end of an iteration with the OSError of save swallowed
AfterSaveSwallowed(h, w) ==
    [book |-> h.book, notebook |-> h.notebook,
     contactsFile |-> w.contactsFile, notesFile |-> w.notesFile,
     out |-> Printed(h.kind, h.tag, h.listing),
     running |-> ~h.exit,
     save |-> IF w.raised THEN "raised" ELSE "done"]

\* the end of an iteration whose handler reached storage.save: an OSError
\* of save leaves the handler as an unexpected exception.  save tells
\* whether storage.save was called and whether it raised.
AfterSave(h, w) ==
    [book |-> h.book, notebook |-> h.notebook,
     contactsFile |-> w.contactsFile, notesFile |-> w.notesFile,
     out |-> IF w.raised THEN Printed("unexpected", "OSError", <<>>)
             ELSE Printed(h.kind, h.tag, h.listing),
     running |-> w.raised \/ ~h.exit,
     save |-> IF w.raised THEN "raised" ELSE "done"]

\* the same end of an iteration with an exception other than CommandError
\* left uncaught, so that it ends run
AfterHandlerFatal(cf, nf, h, saveMode, pad) ==
    IF h.save THEN AfterSave(h, Save(h.book, h.notebook, cf, nf, saveMode, pad))
    ELSE [book |-> h.book, notebook |-> h.notebook, contactsFile |-> cf, notesFile |-> nf,
          out |-> Printed(h.kind, h.tag, h.listing),
          running |-> ~h.exit /\ h.kind # "unexpected", save |-> "none"]

\* the end of an iteration, given what the handler did: CommandError and
\* other exceptions are printed and the loop continues; should_exit ends it
AfterHandler(cf, nf, h, saveMode, pad) ==
    IF h.save THEN AfterSave(h, Save(h.book, h.notebook, cf, nf, saveMode, pad))
    ELSE [book |-> h.book, notebook |-> h.notebook, contactsFile |-> cf, notesFile |-> nf,
          out |-> Printed(h.kind, h.tag, h.listing), running |-> ~h.exit, save |-> "none"]

\* what the except KeyError branch prints: the suggestion in quotes when
\* suggest_command returned one, else the hint at help
Unknown(suggestion) ==
    IF suggestion # <<>> THEN Printed("unknown", "did you mean", suggestion)
    ELSE Printed("unknown", "type help", <<>>)

\* the iteration from registry.resolve(user_input) on
Dispatch(bk, nb, cf, nf, lowered, r, today, saveMode, pad) ==
    IF ~r.found THEN Continue(bk, nb, cf, nf, Unknown(SuggestCommand(lowered, CommandNames)))
    ELSE AfterHandler(cf, nf, RunHandler(r.name, bk, nb, r.arguments, today), saveMode, pad)

\* the iteration from user_input = input("> ").strip() on
RunInput(bk, nb, cf, nf, userInput, today, saveMode, pad) ==
    IF userInput = <<>> THEN Continue(bk, nb, cf, nf, Printed("none", "", <<>>))
    ELSE IF Lower(userInput) \in {WordHelp, WordH}
    THEN Continue(bk, nb, cf, nf, Printed("help", "header", <<>>))
    ELSE IF Lower(userInput) \in {WordCommands, WordQuestion}
    THEN Continue(bk, nb, cf, nf, Printed("help", "list", <<>>))
    ELSE Dispatch(bk, nb, cf, nf, Lower(userInput), Resolve(userInput), today, saveMode, pad)

\* one iteration of the loop of PersonalAssistantCLI.run for a line read by
\* input(): the state afterwards
RunLine(bk, nb, cf, nf, line, today, saveMode, pad) ==
    RunInput(bk, nb, cf, nf, Strip(line), today, saveMode, pad)

\* the value of datetime.today() where no command of the run reads it
AnyDay == [y |-> 2024, m |-> 6, d |-> 15, s |-> 36000]

\* cap on the phones of one record (edit contact can add phones for ever)
MaxPhones == 2

WithinBounds(bk) == \A i \in 1..Len(bk) : Len(bk[i].v.phones) <= MaxPhones

\* the state after an iteration
Becomes(n) ==
    /\ WithinBounds(n.book)
    /\ book' = n.book
    /\ notebook' = n.notebook
    /\ contactsFile' = n.contactsFile
    /\ notesFile' = n.notesFile
    /\ out' = n.out
    /\ running' = n.running

\* the shell reads line and runs it
ReadLine(line, today, saveMode) ==
    /\ running
    /\ \E n \in {RunLine(book, notebook, contactsFile, notesFile, line, today, saveMode, padYear)} :
          Becomes(n)
    /\ UNCHANGED padYear

\* no operation is recorded in call and ret
NoCall == [op |-> "none"]

\* EOFError or KeyboardInterrupt while reading a line
EndOfInput ==
    /\ running
    /\ running' = FALSE
    /\ out' = Printed("message", "goodbye", <<>>)
    /\ call' = NoCall
    /\ ret' = NoCall
    /\ UNCHANGED <<book, notebook, contactsFile, notesFile, padYear>>

-----------------------------------------------------------------------------
(* The shell session: lines a user types, no save fails                    *)

\* lines for add contact
\*   [add contact]
\*   [add contact Ann]
\*   [add contact ANN]
\*   [add contact Ann phone=5551234]
\*   [add contact Ann phone="555 12 34"]
\*   [add contact Ann phone=+15551234 email=a@b.co address=" Kyiv " birthday=0999-01-05]
\*   [add contact Ann phone=123]
\*   [add contact Ann email=a..b@b.co]
\*   [add contact Ann birthday=2024-02-30]
\*   [add contact Ann phone=5551234 phone=+15551234]
\*   [add contact ""]
\*   [add contact "Ann]
AddContactLines ==
    {<<"a","d","d"," ","c","o","n","t","a","c","t">>,
     <<"a","d","d"," ","c","o","n","t","a","c","t"," ","A","n","n">>,
     <<"a","d","d"," ","c","o","n","t","a","c","t"," ","A","N","N">>,
     <<"a","d","d"," ","c","o","n","t","a","c","t"," ","A","n","n"," ","p","h","o","n","e","=","5","5","5","1","2","3","4">>,
     <<"a","d","d"," ","c","o","n","t","a","c","t"," ","A","n","n"," ","p","h","o","n","e","=","\"","5","5","5"," ","1","2"," ","3","4","\"">>,
     <<"a","d","d"," ","c","o","n","t","a","c","t"," ","A","n","n"," ","p","h","o","n","e","=","+","1","5","5","5","1","2","3","4"," ","e","m","a","i","l","=","a","@","b",".","c","o"," ","a","d","d","r","e","s","s","=","\""," ","K","y","i","v"," ","\""," ","b","i","r","t","h","d","a","y","=","0","9","9","9","-","0","1","-","0","5">>,
     <<"a","d","d"," ","c","o","n","t","a","c","t"," ","A","n","n"," ","p","h","o","n","e","=","1","2","3">>,
     <<"a","d","d"," ","c","o","n","t","a","c","t"," ","A","n","n"," ","e","m","a","i","l","=","a",".",".","b","@","b",".","c","o">>,
     <<"a","d","d"," ","c","o","n","t","a","c","t"," ","A","n","n"," ","b","i","r","t","h","d","a","y","=","2","0","2","4","-","0","2","-","3","0">>,
     <<"a","d","d"," ","c","o","n","t","a","c","t"," ","A","n","n"," ","p","h","o","n","e","=","5","5","5","1","2","3","4"," ","p","h","o","n","e","=","+","1","5","5","5","1","2","3","4">>,
     <<"a","d","d"," ","c","o","n","t","a","c","t"," ","\"","\"">>,
     <<"a","d","d"," ","c","o","n","t","a","c","t"," ","\"","A","n","n">>}

\* lines for edit contact
\*   [edit contact]
\*   [edit contact ann]
\*   [edit contact ann phone=+15551234]
\*   [edit contact ann phone=5551234:+15551234]
\*   [edit contact ann phone=5551234:12]
\*   [edit contact ann phone=12a4567]
\*   [edit contact ann email=a@b.co]
\*   [edit contact ann email=]
\*   [edit contact ann email=noatsign]
\*   [edit contact ann phone=+15551234 email=noatsign]
\*   [edit contact ann nick=x]
\*   [edit contact ann address=Lviv birthday=2023-02-29]
\*   [edit contact Zed email=a@b.co]
EditContactLines ==
    {<<"e","d","i","t"," ","c","o","n","t","a","c","t">>,
     <<"e","d","i","t"," ","c","o","n","t","a","c","t"," ","a","n","n">>,
     <<"e","d","i","t"," ","c","o","n","t","a","c","t"," ","a","n","n"," ","p","h","o","n","e","=","+","1","5","5","5","1","2","3","4">>,
     <<"e","d","i","t"," ","c","o","n","t","a","c","t"," ","a","n","n"," ","p","h","o","n","e","=","5","5","5","1","2","3","4",":","+","1","5","5","5","1","2","3","4">>,
     <<"e","d","i","t"," ","c","o","n","t","a","c","t"," ","a","n","n"," ","p","h","o","n","e","=","5","5","5","1","2","3","4",":","1","2">>,
     <<"e","d","i","t"," ","c","o","n","t","a","c","t"," ","a","n","n"," ","p","h","o","n","e","=","1","2","a","4","5","6","7">>,
     <<"e","d","i","t"," ","c","o","n","t","a","c","t"," ","a","n","n"," ","e","m","a","i","l","=","a","@","b",".","c","o">>,
     <<"e","d","i","t"," ","c","o","n","t","a","c","t"," ","a","n","n"," ","e","m","a","i","l","=">>,
     <<"e","d","i","t"," ","c","o","n","t","a","c","t"," ","a","n","n"," ","e","m","a","i","l","=","n","o","a","t","s","i","g","n">>,
     <<"e","d","i","t"," ","c","o","n","t","a","c","t"," ","a","n","n"," ","p","h","o","n","e","=","+","1","5","5","5","1","2","3","4"," ","e","m","a","i","l","=","n","o","a","t","s","i","g","n">>,
     <<"e","d","i","t"," ","c","o","n","t","a","c","t"," ","a","n","n"," ","n","i","c","k","=","x">>,
     <<"e","d","i","t"," ","c","o","n","t","a","c","t"," ","a","n","n"," ","a","d","d","r","e","s","s","=","L","v","i","v"," ","b","i","r","t","h","d","a","y","=","2","0","2","3","-","0","2","-","2","9">>,
     <<"e","d","i","t"," ","c","o","n","t","a","c","t"," ","Z","e","d"," ","e","m","a","i","l","=","a","@","b",".","c","o">>}

\* lines for delete contact
\*   [delete contact]
\*   [delete contact ann]
\*   [delete contact BOB]
DeleteContactLines ==
    {<<"d","e","l","e","t","e"," ","c","o","n","t","a","c","t">>,
     <<"d","e","l","e","t","e"," ","c","o","n","t","a","c","t"," ","a","n","n">>,
     <<"d","e","l","e","t","e"," ","c","o","n","t","a","c","t"," ","B","O","B">>}

\* lines that read the address book
\*   [show contact Ann]
\*   [list contacts]
ReadContactLines ==
    {<<"s","h","o","w"," ","c","o","n","t","a","c","t"," ","A","n","n">>,
     <<"l","i","s","t"," ","c","o","n","t","a","c","t","s">>}

\* lines for the notebook
\*   [add note Todo tags=Work]
\*   [delete note todo]
NoteLines ==
    {<<"a","d","d"," ","n","o","t","e"," ","T","o","d","o"," ","t","a","g","s","=","W","o","r","k">>,
     <<"d","e","l","e","t","e"," ","n","o","t","e"," ","t","o","d","o">>}

\* an empty line, help, an unknown command
\*   []
\*   [ help ]
\*   [foo]
OtherLines ==
    {<<>>,
     <<" ","h","e","l","p"," ">>,
     <<"f","o","o">>}

\* lines that end the session
\*   [exit]
\*   [Quit]
ExitLines ==
    {<<"e","x","i","t">>,
     <<"Q","u","i","t">>}

\* what contacts.json holds when the session starts: no file, or one contact
StoredContacts ==
    { <<>>,
      <<[name |-> <<"B","o","b">>, phones |-> << <<"5","5","5","0","0","0","0">> >>,
         email |-> <<>>, address |-> <<>>, birthday |-> <<>>]>> }

\* main(): storage.load() builds the address book and the notebook from the
\* files (a file that does not load ends the program before the shell starts)
Init ==
    /\ contactsFile \in {d \in StoredContacts : FromSerializable(d) # <<>>}
    /\ book = FromSerializable(contactsFile)[1]
    /\ notesFile = <<>>
    /\ notebook = NotebookFromSerializable(notesFile)
    /\ out = Printed("none", "", <<>>)
    /\ running = TRUE
    /\ padYear \in BOOLEAN
    /\ call = NoCall
    /\ ret = NoCall

\* a line of one of the families is typed, at a time when no save fails
TypeAddContact ==
    \E line \in AddContactLines : ReadLine(line, AnyDay, "ok") /\ UNCHANGED <<call, ret>>
TypeEditContact ==
    \E line \in EditContactLines : ReadLine(line, AnyDay, "ok") /\ UNCHANGED <<call, ret>>
TypeDeleteContact ==
    \E line \in DeleteContactLines : ReadLine(line, AnyDay, "ok") /\ UNCHANGED <<call, ret>>
TypeReadContact ==
    \E line \in ReadContactLines : ReadLine(line, AnyDay, "ok") /\ UNCHANGED <<call, ret>>
TypeNote ==
    \E line \in NoteLines : ReadLine(line, AnyDay, "ok") /\ UNCHANGED <<call, ret>>
TypeOther ==
    \E line \in OtherLines : ReadLine(line, AnyDay, "ok") /\ UNCHANGED <<call, ret>>
TypeExit ==
    \E line \in ExitLines : ReadLine(line, AnyDay, "ok") /\ UNCHANGED <<call, ret>>

Next ==
    \/ TypeAddContact
    \/ TypeEditContact
    \/ TypeDeleteContact
    \/ TypeReadContact
    \/ TypeNote
    \/ TypeOther
    \/ TypeExit
    \/ EndOfInput

Spec == Init /\ [][Next]_vars

-----------------------------------------------------------------------------
(* Properties of the shell session                                         *)

\* the records of the address book
Records(bk) == {bk[i].v : i \in 1..Len(bk)}

\* C2: whenever a command fails because a value is invalid, every contact
\* record of the address book is the same as before the command started
C2_NoPartialWrite ==
    [][out'.tag = "ValidationError" => book' = book]_vars

\* C3: each time the shell is back at its prompt the persisted contacts and
\* notes are the serialised form of the address book and the notebook
C3_SavedAtPrompt ==
    running => /\ contactsFile = ToSerializable(book, padYear)
               /\ notesFile = NotebookToSerializable(notebook)

\* a phone in canonical form: an optional "+", then 7 to 15 digits
CanonicalPhone(p) ==
    \E body \in {p, SubSeq(p, 2, Len(p))} :
        /\ p \in {body, <<"+">> \o body}
        /\ Len(body) \in 7..15
        /\ \A i \in 1..Len(body) : body[i] \in {"0", "1", "2", "3", "4", "5", "6", "7", "8", "9"}

\* a text that is not empty and has no space at either end
Trimmed(s) == s # <<>> /\ s[1] # " " /\ s[Len(s)] # " "

\* a day of the calendar
RealDate(b) ==
    /\ b.y \in 1..9999
    /\ b.m \in 1..12
    /\ b.d >= 1
    /\ b.m \in {4, 6, 9, 11} => b.d <= 30
    /\ b.m \in {1, 3, 5, 7, 8, 10, 12} => b.d <= 31
    /\ b.m = 2 => b.d <= 28 \/ (b.d = 29 /\ b.y % 4 = 0 /\ (b.y % 100 # 0 \/ b.y % 400 = 0))

\* the fields of record passed their validation and are in canonical form
ValidRecord(r) ==
    /\ Trimmed(r.name)
    /\ \A i \in 1..Len(r.phones) : CanonicalPhone(r.phones[i])
    /\ r.email # <<>> => EmailValidate(r.email[1]) = r.email
    /\ r.address # <<>> => Trimmed(r.address[1])
    /\ r.birthday # <<>> => RealDate(r.birthday[1])

\* C7: every phone, email, address and birthday stored in a contact record
\* passed the validation of its field and is in canonical form
C7_FieldsValid == \A r \in Records(book) : ValidRecord(r)

\* C7: a command has just failed on an invalid value, and a record holds
\* a phone, an email, an address and a birthday
C7_AfterFailure ==
    /\ out.tag = "ValidationError"
    /\ \E r \in Records(book) :
          r.phones # <<>> /\ r.email # <<>> /\ r.address # <<>> /\ r.birthday # <<>>

\* C8: loading what the address book serialises to gives the same address
\* book, which serialises to the same list
C8_RoundTrip ==
    /\ FromSerializable(ToSerializable(book, padYear)) = <<book>>
    /\ \A b \in Range(FromSerializable(ToSerializable(book, padYear))) :
          ToSerializable(b, padYear) = ToSerializable(book, padYear)

\* C8: a contact born before the year 1000 is in the address book
C8_EarlyBirthday ==
    \E r \in Records(book) : r.birthday # <<>> /\ r.birthday[1].y < 1000


\* every line that the session types
TypedLines ==
    AddContactLines \cup EditContactLines \cup DeleteContactLines \cup ReadContactLines
    \cup NoteLines \cup OtherLines \cup ExitLines

\* the shell read a line that resolves to the exit or quit command, and the
\* handler ran
ExitTyped ==
    \E line \in TypedLines :
        /\ Resolve(line).found
        /\ Resolve(line).name \in {CmdExit, CmdQuit}
        /\ ReadLine(line, AnyDay, "ok")

\* the iteration printed the report of an unknown command, of a
\* CommandError or of another exception
ErrorPrinted(printed) == printed.kind \in {"unknown", "error", "unexpected"}

\* C12: no error ends the shell loop: an iteration that reports an unknown
\* command, a CommandError or another exception leaves the loop running;
\* the loop ends only in an iteration that ran the exit or quit handler or
\* met end of input, and after that nothing is executed any more
C12_OnlyExitEndsLoop ==
    [][/\ running
       /\ ErrorPrinted(out') => running'
       /\ ~running' => (ExitTyped \/ EndOfInput)]_vars

\* the loop goes on after a handler raised an exception that is no
\* CommandError
C12_RunningAfterException ==
    /\ running
    /\ out.kind = "unexpected"

\* the tokens of an add contact line after the command name
ArgumentTokens(line) == ShlexSplit(Resolve(line).arguments).tokens

WordPhoneIs == <<"p","h","o","n","e","=">>

\* the numbers of the phone=<number> tokens of a line, in the order given
NumbersGiven(line) ==
    [i \in 1..Len(SelectSeq(ArgumentTokens(line), LAMBDA t : StartsWith(t, WordPhoneIs))) |->
        SubSeq(SelectSeq(ArgumentTokens(line), LAMBDA t : StartsWith(t, WordPhoneIs))[i],
               Len(WordPhoneIs) + 1,
               Len(SelectSeq(ArgumentTokens(line), LAMBDA t : StartsWith(t, WordPhoneIs))[i]))]

\* the canonical forms of valid numbers
CanonicalNumbers(numbers) == [i \in 1..Len(numbers) |-> PhoneValidate(numbers[i])[1]]

\* C13: after an add contact line with n valid phone=<number> tokens has
\* added a contact, the phone list of the stored contact holds the n
\* canonical numbers in the order given
C13_EveryPhoneStored ==
    [][\A line \in AddContactLines :
          (/\ ReadLine(line, AnyDay, "ok")
           /\ out'.kind = "message"
           /\ out'.tag = "added")
          => Get(book', ArgumentTokens(line)[1])[1].phones
                = CanonicalNumbers(NumbersGiven(line))]_vars
-----------------------------------------------------------------------------
(* The shell session when storage.save can fail                            *)

\* lines typed while the files may not be writable
\*   [add contact Ann phone=5551234]
\*   [edit contact ann phone=+15551234 email=noatsign]
\*   [delete contact ann]
\*   [add note Todo tags=Work]
\*   [edit note todo add_tags=home]
\*   [delete note todo]
\*   [exit]
IOLines ==
    {<<"a","d","d"," ","c","o","n","t","a","c","t"," ","A","n","n"," ","p","h","o","n","e","=","5","5","5","1","2","3","4">>,
     <<"e","d","i","t"," ","c","o","n","t","a","c","t"," ","a","n","n"," ","p","h","o","n","e","=","+","1","5","5","5","1","2","3","4"," ","e","m","a","i","l","=","n","o","a","t","s","i","g","n">>,
     <<"d","e","l","e","t","e"," ","c","o","n","t","a","c","t"," ","a","n","n">>,
     <<"a","d","d"," ","n","o","t","e"," ","T","o","d","o"," ","t","a","g","s","=","W","o","r","k">>,
     <<"e","d","i","t"," ","n","o","t","e"," ","t","o","d","o"," ","a","d","d","_","t","a","g","s","=","h","o","m","e">>,
     <<"d","e","l","e","t","e"," ","n","o","t","e"," ","t","o","d","o">>,
     <<"e","x","i","t">>}

\* the shell reads line and runs it while save behaves as saveMode says;
\* call keeps the line and the mode, ret whether save was called
ReadLineIO(line, saveMode) ==
    /\ running
    /\ \E n \in {RunLine(book, notebook, contactsFile, notesFile, line, AnyDay, saveMode, padYear)} :
          /\ Becomes(n)
          /\ ret' = [op |-> "line", save |-> n.save]
    /\ call' = [op |-> "line", line |-> line, saveMode |-> saveMode]

\* both files can be written
TypeWritable ==
    \E line \in IOLines : ReadLineIO(line, "ok") /\ UNCHANGED padYear

\* contacts.json cannot be opened for writing
TypeContactsFail ==
    \E line \in IOLines : ReadLineIO(line, "fail_contacts") /\ UNCHANGED padYear

\* contacts.json is written, notes.json cannot be opened for writing
TypeNotesFail ==
    \E line \in IOLines : ReadLineIO(line, "fail_notes") /\ UNCHANGED padYear

NextIO ==
    \/ TypeWritable
    \/ TypeContactsFail
    \/ TypeNotesFail
    \/ EndOfInput

SpecIO == Init /\ [][NextIO]_vars

\* C4 as stated: when save fails during a mutating command, the failure is
\* shown to the user as Error: <message> (a CommandError) and the shell
\* loop continues
C4_SaveFailureIsCommandError ==
    (ret.op = "line" /\ ret.save = "raised") => (out.kind = "error" /\ running)

\* C4 amended: when save fails during a mutating command, the failure is
\* not swallowed: it is shown to the user as Unexpected error: <message>
\* and the shell loop continues
C4_SaveFailureIsUnexpected ==
    (ret.op = "line" /\ ret.save = "raised") =>
        /\ out = Printed("unexpected", "OSError", <<>>)
        /\ running

\* C4: save failed after a contact was added: the contact is in memory and
\* not in contacts.json
C4_SaveFailed ==
    /\ ret.op = "line" /\ ret.save = "raised"
    /\ call.saveMode = "fail_contacts"
    /\ Len(book) > Len(contactsFile)

-----------------------------------------------------------------------------
(* CommandRegistry.resolve on its own                                      *)

\* how an input starts
\*   [search notes by tag]
\*   [Search Notes]
\*   [search note]
\*   [sort notes by tags]
\*   [ADD CONTACT]
\*   [add note]
\*   [add]
\*   [list contacts]
\*   [upcoming birthdays]
\*   [exit]
\*   [quit]
\*   [foo]
ResolveHeads ==
    {<<"s","e","a","r","c","h"," ","n","o","t","e","s"," ","b","y"," ","t","a","g">>,
     <<"S","e","a","r","c","h"," ","N","o","t","e","s">>,
     <<"s","e","a","r","c","h"," ","n","o","t","e">>,
     <<"s","o","r","t"," ","n","o","t","e","s"," ","b","y"," ","t","a","g","s">>,
     <<"A","D","D"," ","C","O","N","T","A","C","T">>,
     <<"a","d","d"," ","n","o","t","e">>,
     <<"a","d","d">>,
     <<"l","i","s","t"," ","c","o","n","t","a","c","t","s">>,
     <<"u","p","c","o","m","i","n","g"," ","b","i","r","t","h","d","a","y","s">>,
     <<"e","x","i","t">>,
     <<"q","u","i","t">>,
     <<"f","o","o">>}

\* how an input goes on
\*   []
\*   [ work]
\*   [  John Smith phone=+15551234 ]
\*   [s]
\*   [ by tag Work]
\*   [contact]
ResolveTails ==
    {<<>>,
     <<" ","w","o","r","k">>,
     <<" "," ","J","o","h","n"," ","S","m","i","t","h"," ","p","h","o","n","e","=","+","1","5","5","5","1","2","3","4"," ">>,
     <<"s">>,
     <<" ","b","y"," ","t","a","g"," ","W","o","r","k">>,
     <<"c","o","n","t","a","c","t">>}

\* white space around an input
\*   []
\*   [  ]
ResolveMargins ==
    {<<>>,
     <<" "," ">>}

\* resolve is called with an input made of a margin, a head, a tail and a
\* margin; call keeps the input, ret what resolve returned
CallResolve(userInput) ==
    /\ call' = [op |-> "resolve", userInput |-> userInput]
    /\ ret' = Resolve(userInput)

ResolveInput ==
    \E left \in ResolveMargins, head \in ResolveHeads, tail \in ResolveTails,
       right \in ResolveMargins :
        /\ CallResolve(left \o head \o tail \o right)
        /\ UNCHANGED <<book, notebook, contactsFile, notesFile, out, running, padYear>>

SpecResolve == Init /\ [][ResolveInput]_vars

\* text without the white space at its ends
Trim(s) ==
    IF \A i \in 1..Len(s) : s[i] = " " THEN <<>>
    ELSE SubSeq(s, CHOOSE i \in 1..Len(s) : s[i] # " " /\ \A j \in 1..(i - 1) : s[j] = " ",
                   CHOOSE i \in 1..Len(s) : s[i] # " " /\ \A j \in (i + 1)..Len(s) : s[j] = " ")

\* the registered names that are a prefix of the trimmed, lowercased input
PrefixNames(userInput) ==
    {name \in Range(CommandNames) :
        /\ Len(name) <= Len(Trim(userInput))
        /\ \A i \in 1..Len(name) : name[i] = LowerChar(Trim(userInput)[i])}

\* C1: when registered names are a prefix of the trimmed, lowercased input,
\* resolve chooses the longest of them and hands over the rest of the
\* trimmed input in its original case, trimmed; when none is, it reports
\* no match
C1_LongestPrefix ==
    call.op = "resolve" =>
        IF PrefixNames(call.userInput) = {} THEN ~ret.found
        ELSE /\ ret.found
             /\ ret.name \in PrefixNames(call.userInput)
             /\ \A name \in PrefixNames(call.userInput) : Len(name) <= Len(ret.name)
             /\ ret.arguments =
                  Trim(SubSeq(Trim(call.userInput), Len(ret.name) + 1,
                              Len(Trim(call.userInput))))

\* C1: an input that starts with two registered names, with an argument in
\* capitals, has been resolved
C1_TwoPrefixes ==
    /\ call.op = "resolve"
    /\ Cardinality(PrefixNames(call.userInput)) = 2
    /\ ret.found
    /\ ret.name = CmdSearchNotesByTag
    /\ ret.arguments = <<"W","o","r","k">>

-----------------------------------------------------------------------------
(* commands.py suggest_command on its own and from the shell               *)

\* the words of an input that no command name starts
\*   [ad]
\*   [john]
\*   [nots]
SuggestWords ==
    {<<"a","d">>,
     <<"j","o","h","n">>,
     <<"n","o","t","s">>}

\* the white space between two words
\*   [ ]
\*   [  ]
SuggestGaps ==
    {<<" ">>,
     <<" "," ">>}

\* lines that resolve rejects
\*   [ad contact John]
\*   [ Nots john ]
\*   [john]
\*   [lis  nots]
\*   [ad ad john john]
UnknownLines ==
    {<<"a","d"," ","c","o","n","t","a","c","t"," ","J","o","h","n">>,
     <<" ","N","o","t","s"," ","j","o","h","n"," ">>,
     <<"j","o","h","n">>,
     <<"l","i","s"," "," ","n","o","t","s">>,
     <<"a","d"," ","a","d"," ","j","o","h","n"," ","j","o","h","n">>}

\* cap on the words of an input handed to suggest_command
MaxTyped == 5

RECURSIVE Spaced(_, _, _)
\* the first n of words with gap between them
Spaced(words, gap, n) ==
    IF n = 0 THEN <<>>
    ELSE IF n = 1 THEN words[1]
    ELSE Spaced(words, gap, n - 1) \o gap \o words[n]

\* the inputs: up to MaxTyped words with the same gap between them, and the
\* lines above
SuggestInputs ==
    UnknownLines \cup
    UNION {{Spaced(words, gap, n) : words \in [1..n -> SuggestWords], gap \in SuggestGaps} :
              n \in 0..MaxTyped}

\* the program after main() loaded empty files, and an input to come
InitSuggest ==
    /\ contactsFile = <<>>
    /\ book = FromSerializable(contactsFile)[1]
    /\ notesFile = <<>>
    /\ notebook = NotebookFromSerializable(notesFile)
    /\ out = Printed("none", "", <<>>)
    /\ running = TRUE
    /\ padYear \in BOOLEAN
    /\ call \in {[op |-> "input", userInput |-> userInput] : userInput \in SuggestInputs}
    /\ ret = NoCall

\* suggest_command(user_input, command_map) is called with the input and
\* the command map of build_command_map; call keeps the input, ret what it
\* returned
CallSuggest ==
    /\ call.op = "input"
    /\ call' = [op |-> "suggest_command", userInput |-> call.userInput]
    /\ ret' = SuggestCommand(call.userInput, CommandNames)
    /\ UNCHANGED <<book, notebook, contactsFile, notesFile, out, running, padYear>>

\* the shell reads the input as a line
TypeUnknown ==
    /\ call.op = "input"
    /\ ReadLine(call.userInput, AnyDay, "ok")
    /\ call' = [op |-> "line", line |-> call.userInput]
    /\ ret' = NoCall

SpecSuggest == InitSuggest /\ [][CallSuggest \/ TypeUnknown]_vars

\* difflib ratio of text and name is at least 0.5
Similar(text, name) == 4 * Matches(name, text) >= Len(name) + Len(text)

\* name is at least as similar to text as other is
NotLessSimilar(text, name, other) ==
    Matches(other, text) * (Len(name) + Len(text))
        <= Matches(name, text) * (Len(other) + Len(text))

HasMatch(text) == \E name \in Range(CommandNames) : Similar(text, name)

\* got is a best approximate match of text among the registered names
BestMatch(got, text) ==
    /\ Len(got) = 1
    /\ got[1] \in Range(CommandNames)
    /\ Similar(text, got[1])
    /\ \A other \in Range(CommandNames) : NotLessSimilar(text, got[1], other)

\* the input truncated to its first k words
Truncated(text, k) == JoinFirst(SplitWords(text), k)

\* the word counts suggest_command tries whose truncation has a match
Tried(text) ==
    {k \in 1..Len(SplitWords(text)) : k <= 4 /\ HasMatch(Truncated(text, k))}

\* the result that C11 states for text
Suggested(got, text) ==
    IF text = <<>> THEN got = <<>>
    ELSE IF HasMatch(text) THEN BestMatch(got, text)
    ELSE IF Tried(text) # {} THEN BestMatch(got, Truncated(text, MaxOf(Tried(text))))
    ELSE got = <<>>

-----------------------------------------------------------------------------
(* AddressBook and Notebook on their own                                   *)

\* names of contacts, two of them differing only in case
\*   [Ann]
\*   [ANN]
\*   [Bob]
BookNames ==
    {<<"A","n","n">>,
     <<"A","N","N">>,
     <<"B","o","b">>}

\* names and titles asked for
\*   [ann]
\*   [ANN]
\*   [Bob]
\*   [TODO]
\*   [idea]
\*   [Zed]
AskedNames ==
    {<<"a","n","n">>,
     <<"A","N","N">>,
     <<"B","o","b">>,
     <<"T","O","D","O">>,
     <<"i","d","e","a">>,
     <<"Z","e","d">>}

\* titles of notes, two of them differing only in case
\*   [Todo]
\*   [todo]
\*   [Idea]
NoteTitles ==
    {<<"T","o","d","o">>,
     <<"t","o","d","o">>,
     <<"I","d","e","a">>}

\* the contact records handed to add_record
BookRecords ==
    {NewRecord(name, <<>>, <<>>, <<>>, <<>>)[1] : name \in BookNames}

\* the notes handed to Notebook.add
BookNotes ==
    {[title |-> title, content |-> <<>>, tags |-> {}] : title \in NoteTitles}

\* call keeps the operation, the collection, the argument and the
\* collection before the call; ret keeps what the operation returned
Called(op, on, name, before) == [op |-> op, on |-> on, name |-> name, before |-> before]

Returned(value) == [op |-> "return", value |-> value]

\* address_book.add_record(record)
BookAdd ==
    \E record \in BookRecords :
        /\ book' = AddRecord(book, record)
        /\ call' = Called("add", "book", record.name, book)
        /\ ret' = Returned(<<record>>)
        /\ UNCHANGED <<notebook, contactsFile, notesFile, out, running, padYear>>

\* address_book.get(name)
BookGet ==
    \E name \in AskedNames :
        /\ call' = Called("get", "book", name, book)
        /\ ret' = Returned(Get(book, name))
        /\ UNCHANGED <<book, notebook, contactsFile, notesFile, out, running, padYear>>

\* address_book.remove(name)
BookRemove ==
    \E name \in AskedNames :
        /\ book' = Remove(book, name).book
        /\ call' = Called("remove", "book", name, book)
        /\ ret' = Returned(Remove(book, name).found)
        /\ UNCHANGED <<notebook, contactsFile, notesFile, out, running, padYear>>

\* notebook.add(note)
NoteAdd ==
    \E note \in BookNotes :
        /\ notebook' = NotebookAdd(notebook, note)
        /\ call' = Called("add", "notebook", note.title, notebook)
        /\ ret' = Returned(<<note>>)
        /\ UNCHANGED <<book, contactsFile, notesFile, out, running, padYear>>

\* notebook.get(title)
NoteGet ==
    \E title \in AskedNames :
        /\ call' = Called("get", "notebook", title, notebook)
        /\ ret' = Returned(NotebookGet(notebook, title))
        /\ UNCHANGED <<book, notebook, contactsFile, notesFile, out, running, padYear>>

\* notebook.remove(title)
NoteRemove ==
    \E title \in AskedNames :
        /\ notebook' = NotebookRemove(notebook, title).notebook
        /\ call' = Called("remove", "notebook", title, notebook)
        /\ ret' = Returned(NotebookRemove(notebook, title).found)
        /\ UNCHANGED <<book, contactsFile, notesFile, out, running, padYear>>

NextBook ==
    \/ BookAdd
    \/ BookGet
    \/ BookRemove
    \/ NoteAdd
    \/ NoteGet
    \/ NoteRemove

SpecBook == Init /\ [][NextBook]_vars

\* two texts that differ at most in the case of their letters
SameNoCase(a, b) ==
    /\ Len(a) = Len(b)
    /\ \A i \in 1..Len(a) : LowerChar(a[i]) = LowerChar(b[i])

\* the names (titles) of a mapping, entry by entry
EntryNames(on, d) ==
    [i \in 1..Len(d) |-> IF on = "book" THEN d[i].v.name ELSE d[i].v.title]

\* the entries of a mapping whose name (title) is name in some case
Holding(on, d, name) ==
    {d[i].v : i \in {j \in 1..Len(d) : SameNoCase(EntryNames(on, d)[j], name)}}

\* the entries of a mapping under other names
Others(on, d, name) ==
    {d[i] : i \in {j \in 1..Len(d) : ~SameNoCase(EntryNames(on, d)[j], name)}}

\* at most one entry per lowercased name, each key the lowercase of the name
WellKeyed(on, d) ==
    /\ \A i \in 1..Len(d) :
          /\ Len(d[i].k) = Len(EntryNames(on, d)[i])
          /\ \A c \in 1..Len(d[i].k) : d[i].k[c] = LowerChar(EntryNames(on, d)[i][c])
    /\ \A i, j \in 1..Len(d) : i # j => ~SameNoCase(EntryNames(on, d)[i], EntryNames(on, d)[j])

\* the collection the last call was made on, as it is now
Collection == IF call.on = "book" THEN book ELSE notebook

\* C5: the address book and the notebook hold at most one entry per
\* lowercased name, each under the lowercase of its name; add overwrites an
\* entry whose name differs only in case, get finds an entry under any
\* case of its name, remove returns true exactly when there was such an
\* entry and leaves none
C5_CaseInsensitiveMapping ==
    /\ WellKeyed("book", book)
    /\ WellKeyed("notebook", notebook)
    /\ call.op = "add" =>
          /\ Holding(call.on, Collection, call.name) = {ret.value[1]}
          /\ Others(call.on, Collection, call.name) = Others(call.on, call.before, call.name)
          /\ Len(Collection) = Len(call.before)
                + (IF Holding(call.on, call.before, call.name) = {} THEN 1 ELSE 0)
    /\ call.op = "get" =>
          /\ Collection = call.before
          /\ Holding(call.on, Collection, call.name) = Range(ret.value)
    /\ call.op = "remove" =>
          /\ ret.value = (Holding(call.on, call.before, call.name) # {})
          /\ Holding(call.on, Collection, call.name) = {}
          /\ Others(call.on, Collection, call.name) = Others(call.on, call.before, call.name)
          /\ Len(Collection) = Cardinality(Others(call.on, call.before, call.name))

\* C5: a contact was added under a name that differs only in case from
\* the name of a contact already there, which it replaced
C5_Overwritten ==
    /\ call.op = "add" /\ call.on = "book"
    /\ Holding("book", call.before, call.name) # {}
    /\ Holding("book", call.before, call.name) # Holding("book", book, call.name)

-----------------------------------------------------------------------------
(* Birthdays: days_to_birthday and the upcoming birthdays command          *)

\* lines that add contacts with and without a birthday
\*   [add contact Ann phone=5551234 birthday=2024-12-25]
\*   [add contact Bob birthday=2000-02-29]
\*   [add contact Cid]
\*   [delete contact bob]
BirthdayContactLines ==
    {<<"a","d","d"," ","c","o","n","t","a","c","t"," ","A","n","n"," ","p","h","o","n","e","=","5","5","5","1","2","3","4"," ","b","i","r","t","h","d","a","y","=","2","0","2","4","-","1","2","-","2","5">>,
     <<"a","d","d"," ","c","o","n","t","a","c","t"," ","B","o","b"," ","b","i","r","t","h","d","a","y","=","2","0","0","0","-","0","2","-","2","9">>,
     <<"a","d","d"," ","c","o","n","t","a","c","t"," ","C","i","d">>,
     <<"d","e","l","e","t","e"," ","c","o","n","t","a","c","t"," ","b","o","b">>}

\* the upcoming birthdays lines, each with the number int() makes of its
\* argument (<<>> when int() raises ValueError)
UpcomingAsks ==
    { [line |-> <<"u","p","c","o","m","i","n","g"," ","b","i","r","t","h","d","a","y","s"," ","1","0">>, days |-> <<10>>],
      [line |-> <<"u","p","c","o","m","i","n","g"," ","b","i","r","t","h","d","a","y","s"," ","0">>, days |-> <<0>>],
      [line |-> <<"U","p","c","o","m","i","n","g"," ","B","i","r","t","h","d","a","y","s"," "," ","3","6","5"," ">>, days |-> <<365>>],
      [line |-> <<"u","p","c","o","m","i","n","g"," ","b","i","r","t","h","d","a","y","s"," ","s","o","o","n">>, days |-> <<>>] }

\* values of datetime.today(): a date and the seconds since midnight
Todays ==
    { [y |-> 2024, m |-> 12, d |-> 20, s |-> 0],
      [y |-> 2024, m |-> 12, d |-> 20, s |-> 36000],
      [y |-> 2024, m |-> 12, d |-> 25, s |-> 0],
      [y |-> 2024, m |-> 12, d |-> 25, s |-> 36000],
      [y |-> 2024, m |-> 12, d |-> 26, s |-> 0],
      [y |-> 2024, m |-> 1,  d |-> 1,  s |-> 0],
      [y |-> 2024, m |-> 2,  d |-> 29, s |-> 0],
      [y |-> 2024, m |-> 2,  d |-> 29, s |-> 1],
      [y |-> 2024, m |-> 3,  d |-> 1,  s |-> 0],
      [y |-> 2023, m |-> 2,  d |-> 1,  s |-> 43200],
      [y |-> 2023, m |-> 12, d |-> 31, s |-> 86399] }

\* a contact is added or deleted
BirthdayContact ==
    \E line \in BirthdayContactLines :
        /\ ReadLine(line, AnyDay, "ok")
        /\ call' = NoCall
        /\ ret' = NoCall

\* upcoming birthdays is typed at the moment today
AskUpcoming ==
    \E ask \in UpcomingAsks, today \in Todays :
        /\ ReadLine(ask.line, today, "ok")
        /\ call' = [op |-> "upcoming", days |-> ask.days, today |-> today]
        /\ ret' = NoCall

\* record.days_to_birthday(today=today) for a record of the address book
AskDays ==
    \E i \in 1..Len(book), today \in Todays :
        /\ call' = [op |-> "days_to_birthday", rec |-> book[i].v, today |-> today]
        /\ ret' = DaysToBirthday(book[i].v, today)
        /\ UNCHANGED <<book, notebook, contactsFile, notesFile, out, running, padYear>>

NextBirthday ==
    \/ BirthdayContact
    \/ AskUpcoming
    \/ AskDays

SpecBirthday == Init /\ [][NextBirthday]_vars

\* a leap year
LeapYear(y) == y % 4 = 0 /\ (y % 100 # 0 \/ y % 400 = 0)

\* the number of the day (y, m, d) counted from 0001-01-01
DayNumber(y, m, d) ==
    365 * (y - 1) + ((y - 1) \div 4) - ((y - 1) \div 100) + ((y - 1) \div 400)
    + <<0, 31, 59, 90, 120, 151, 181, 212, 243, 273, 304, 334>>[m]
    + (IF m > 2 /\ LeapYear(y) THEN 1 ELSE 0) + d

\* the month and day (m, d) come before the date of today in its year
PastThisYear(m, d, today) == m < today.m \/ (m = today.m /\ d < today.d)

\* the calendar days from the date of today to the next (m, d)
CalendarDays(m, d, today) ==
    IF PastThisYear(m, d, today)
    THEN DayNumber(today.y + 1, m, d) - DayNumber(today.y, today.m, today.d)
    ELSE DayNumber(today.y, m, d) - DayNumber(today.y, today.m, today.d)

\* the entries of the address book whose birthday is at most days calendar
\* days away, in the order of the address book
Due(bk, days, today) ==
    SelectSeq(bk, LAMBDA e :
        /\ e.v.birthday # <<>>
        /\ CalendarDays(e.v.birthday[1].m, e.v.birthday[1].d, today) \in 0..days)

\* a listing of entries, each with its number of calendar days
Listed(due, today) ==
    [i \in 1..Len(due) |->
        [name |-> due[i].v.name,
         days |-> CalendarDays(due[i].v.birthday[1].m, due[i].v.birthday[1].d, today)]]

\* what upcoming birthdays <days> has to list
Upcoming(bk, days, today) == Listed(Due(bk, days, today), today)

\* C6: at any time of day, days_to_birthday returns the calendar days from
\* the date of today to the next birthday (0 on the birthday itself), and
\* upcoming birthdays <days> lists exactly the contacts for which that
\* number is in 0..days, each with that number
C6_CalendarDays ==
    /\ (call.op = "days_to_birthday" /\ ret.kind = "days") =>
          ret.days = CalendarDays(call.rec.birthday[1].m, call.rec.birthday[1].d, call.today)
    /\ (call.op = "upcoming" /\ call.days # <<>> /\ out.kind = "message") =>
          out.listing = Upcoming(book, call.days[1], call.today)

\* the year the birthday (m, d) is projected onto
ProjectedYear(m, d, today) == IF PastThisYear(m, d, today) THEN today.y + 1 ELSE today.y

\* the birthday of record is February 29
LeapDay(r) == r.birthday # <<>> /\ r.birthday[1].m = 2 /\ r.birthday[1].d = 29

\* C9: for a birthday on February 29, days_to_birthday raises whenever the
\* year the birthday is projected onto is not a leap year, and upcoming
\* birthdays then fails with an unexpected error and lists no contact
C9_LeapDayRaises ==
    /\ (/\ call.op = "days_to_birthday"
        /\ LeapDay(call.rec)
        /\ ~LeapYear(ProjectedYear(2, 29, call.today))) => ret.kind = "raise"
    /\ (/\ call.op = "upcoming"
        /\ call.days # <<>>
        /\ \E r \in Records(book) : LeapDay(r)
        /\ ~LeapYear(ProjectedYear(2, 29, call.today))) =>
            out = Printed("unexpected", "ValueError", <<>>)

\* C9: upcoming birthdays was typed after February 29 of a leap year with
\* two contacts that have a birthday, one of them on February 29
C9_AfterLeapDay ==
    /\ call.op = "upcoming"
    /\ call.days # <<>>
    /\ LeapYear(call.today.y)
    /\ \E r \in Records(book) : LeapDay(r)
    /\ \E r \in Records(book) : r.birthday # <<>> /\ ~LeapDay(r)
    /\ out.kind = "unexpected"

-----------------------------------------------------------------------------
(* Notebook.sorted_by_tags, through the sort notes by tags command         *)

\* lines that add, change and delete notes
\*   [add note Beta]
\*   [add note Gamma tags=a]
\*   [add note apple tags=A]
\*   [add note Delta tags=b,a]
\*   [add note alpha tags=b]
\*   [edit note beta add_tags=a]
\*   [edit note gamma remove_tags=a]
\*   [delete note apple]
SortNoteLines ==
    {<<"a","d","d"," ","n","o","t","e"," ","B","e","t","a">>,
     <<"a","d","d"," ","n","o","t","e"," ","G","a","m","m","a"," ","t","a","g","s","=","a">>,
     <<"a","d","d"," ","n","o","t","e"," ","a","p","p","l","e"," ","t","a","g","s","=","A">>,
     <<"a","d","d"," ","n","o","t","e"," ","D","e","l","t","a"," ","t","a","g","s","=","b",",","a">>,
     <<"a","d","d"," ","n","o","t","e"," ","a","l","p","h","a"," ","t","a","g","s","=","b">>,
     <<"e","d","i","t"," ","n","o","t","e"," ","b","e","t","a"," ","a","d","d","_","t","a","g","s","=","a">>,
     <<"e","d","i","t"," ","n","o","t","e"," ","g","a","m","m","a"," ","r","e","m","o","v","e","_","t","a","g","s","=","a">>,
     <<"d","e","l","e","t","e"," ","n","o","t","e"," ","a","p","p","l","e">>}

\* lines for sort notes by tags
\*   [sort notes by tags]
\*   [Sort Notes By Tags now]
SortLines ==
    {<<"s","o","r","t"," ","n","o","t","e","s"," ","b","y"," ","t","a","g","s">>,
     <<"S","o","r","t"," ","N","o","t","e","s"," ","B","y"," ","T","a","g","s"," ","n","o","w">>}

\* a note is added, changed or deleted
ChangeNotes ==
    \E line \in SortNoteLines :
        /\ ReadLine(line, AnyDay, "ok")
        /\ call' = NoCall
        /\ ret' = NoCall

\* sort notes by tags is typed: out.listing is what sorted_by_tags returned
SortTyped ==
    \E line \in SortLines :
        /\ ReadLine(line, AnyDay, "ok")
        /\ call' = [op |-> "sort"]
        /\ ret' = NoCall

NextSort ==
    \/ ChangeNotes
    \/ SortTyped

SpecSort == Init /\ [][NextSort]_vars

\* the tags of a note in ascending order, [""] for a note without tags
AscendingTags(note) ==
    IF note.tags = {} THEN << <<>> >>
    ELSE CHOOSE s \in [1..Cardinality(note.tags) -> note.tags] :
            \A i, j \in 1..Cardinality(note.tags) : i < j => StrLess(s[i], s[j])

\* list a comes before list b: at the first place where they differ a has
\* the smaller text, or a ends there
TagsBefore(a, b) ==
    \E k \in 1..(Len(a) + 1) :
        /\ \A i \in 1..(k - 1) : i <= Len(b) /\ a[i] = b[i]
        /\ IF k > Len(a) THEN k <= Len(b)
           ELSE k <= Len(b) /\ StrLess(a[k], b[k])

\* note x has to come before note y
NoteBefore(x, y) ==
    \/ TagsBefore(AscendingTags(x), AscendingTags(y))
    \/ /\ AscendingTags(x) = AscendingTags(y)
       /\ StrLess([i \in 1..Len(x.title) |-> LowerChar(x.title[i])],
                  [i \in 1..Len(y.title) |-> LowerChar(y.title[i])])

\* C10: sorted_by_tags returns every note of the notebook exactly once,
\* ordered by the ascending tag list ([""] for no tags), then by the
\* lowercased title
C10_SortedByTags ==
    call.op = "sort" =>
        /\ Len(out.listing) = Len(notebook)
        /\ \A i \in 1..Len(notebook) :
              Cardinality({j \in 1..Len(out.listing) : out.listing[j] = notebook[i].v}) = 1
        /\ \A i, j \in 1..Len(out.listing) :
              i < j => NoteBefore(out.listing[i], out.listing[j])

\* C10: a notebook was sorted that holds a note without tags and two notes
\* with the same tags, and that was not in sorted order
C10_Resorted ==
    /\ call.op = "sort"
    /\ \E i \in 1..Len(out.listing) : out.listing[i].tags = {}
    /\ \E i, j \in 1..Len(out.listing) :
          i # j /\ out.listing[i].tags = out.listing[j].tags /\ out.listing[i].tags # {}
    /\ out.listing # DictValues(notebook)

-----------------------------------------------------------------------------
(* Note.add_tags and Note.remove_tag, called and through add note and edit *)
(* note                                                                    *)

\* lines that add notes and change their tags
\*   [add note Todo tags=" Work ,,HOME"]
\*   [add note idea tags=X]
\*   [edit note todo add_tags="Home, ,x"]
\*   [edit note TODO remove_tags=" WORK ,x"]
TagLines ==
    {<<"a","d","d"," ","n","o","t","e"," ","T","o","d","o"," ","t","a","g","s","=","\""," ","W","o","r","k"," ",",",",","H","O","M","E","\"">>,
     <<"a","d","d"," ","n","o","t","e"," ","i","d","e","a"," ","t","a","g","s","=","X">>,
     <<"e","d","i","t"," ","n","o","t","e"," ","t","o","d","o"," ","a","d","d","_","t","a","g","s","=","\"","H","o","m","e",","," ",",","x","\"">>,
     <<"e","d","i","t"," ","n","o","t","e"," ","T","O","D","O"," ","r","e","m","o","v","e","_","t","a","g","s","=","\""," ","W","O","R","K"," ",",","x","\"">>}

\* tags handed to add_tags and remove_tag
\*   []
\*   [ X ]
\*   [Work]
TagsGiven ==
    {<<>>,
     <<" ","X"," ">>,
     <<"W","o","r","k">>}

\* a line of TagLines is typed
TypeTags ==
    \E line \in TagLines :
        /\ ReadLine(line, AnyDay, "ok")
        /\ call' = NoCall
        /\ ret' = NoCall

\* a tag of blanks only
BlankTag == <<" "," ">>

\* note.add_tags([first, BlankTag]) for a note of the notebook; call keeps the
\* tags given and the tags the note had
CallAddTags ==
    \E i \in 1..Len(notebook), first \in TagsGiven :
        /\ notebook' = [notebook EXCEPT ![i].v = AddTags(@, <<first, BlankTag>>)]
        /\ call' = [op |-> "add_tags", at |-> i, given |-> {first, BlankTag},
                    before |-> notebook[i].v.tags]
        /\ ret' = NoCall
        /\ UNCHANGED <<book, contactsFile, notesFile, out, running, padYear>>

\* note.remove_tag(tag) for a note of the notebook; call keeps the tag given
\* and the tags the note had, ret the returned bool
CallRemoveTag ==
    \E i \in 1..Len(notebook), tag \in TagsGiven :
        /\ notebook' = [notebook EXCEPT ![i].v = RemoveTag(@, tag).note]
        /\ call' = [op |-> "remove_tag", at |-> i, given |-> tag,
                    before |-> notebook[i].v.tags]
        /\ ret' = RemoveTag(notebook[i].v, tag).found
        /\ UNCHANGED <<book, contactsFile, notesFile, out, running, padYear>>

NextTags ==
    \/ TypeTags
    \/ CallAddTags
    \/ CallRemoveTag

SpecTags == Init /\ [][NextTags]_vars

\* a tag as the notebook keeps it: not empty, no white space at its ends, no
\* upper-case letter
NormalTag(tag) ==
    /\ tag # <<>>
    /\ Trim(tag) = tag
    /\ \A i \in 1..Len(tag) : ~IsUpper(tag[i])

\* a given tag, trimmed and in lower case
Normalised(tag) == [i \in 1..Len(Trim(tag)) |-> LowerChar(Trim(tag)[i])]

\* C14: from an empty notebook on, every tag of every note is not empty,
\* trimmed and in lower case; add_tags adds the given tags trimmed and in
\* lower case, without the empty ones; remove_tag returns true exactly when
\* the trimmed, lower-case form of its argument was a tag of the note, and
\* the note is then without it
C14_TagsNormalised ==
    /\ \A i \in 1..Len(notebook) : \A tag \in notebook[i].v.tags : NormalTag(tag)
    /\ call.op = "add_tags" =>
          notebook[call.at].v.tags
             = call.before \cup {Normalised(tag) : tag \in {t \in call.given : Trim(t) # <<>>}}
    /\ call.op = "remove_tag" =>
          /\ ret = (Normalised(call.given) \in call.before)
          /\ notebook[call.at].v.tags = call.before \ {Normalised(call.given)}

\* remove_tag took a tag away that was given padded and in upper case
C14_RemovedAsGiven ==
    /\ call.op = "remove_tag"
    /\ call.given # Normalised(call.given)
    /\ ret = TRUE
-----------------------------------------------------------------------------
(* The name argument of the contact commands                               *)

\* a name as it is typed after the command
\*   [Ann]
\*   ["Ann Lee"]
NameArguments ==
    {<<"A","n","n">>,
     <<"\"","A","n","n"," ","L","e","e","\"">>}

\* what follows the name in an add contact line
\*   []
\*   [ phone=5551234]
AddRests ==
    {<<>>,
     <<" ","p","h","o","n","e","=","5","5","5","1","2","3","4">>}

WordAddress == <<" ","a","d","d","r","e","s","s","=","L","v","i","v">>
Blank       == <<" ">>

\* the lines of the four commands for a name argument
AddLine(name, rest) == CmdAddContact \o Blank \o name \o rest
ShowLine(name)      == CmdShowContact \o Blank \o name
EditLine(name)      == CmdEditContact \o Blank \o name \o WordAddress
DeleteLine(name)    == CmdDeleteContact \o Blank \o name

\* add contact is typed with a name argument; call keeps the argument
AddNamed ==
    \E name \in NameArguments, rest \in AddRests :
        /\ ReadLine(AddLine(name, rest), AnyDay, "ok")
        /\ call' = [op |-> "add contact", name |-> name]
        /\ ret' = NoCall

\* show contact, edit contact or delete contact is typed with a name argument
UseNamed ==
    \E name \in NameArguments :
        \E line \in {ShowLine(name), EditLine(name), DeleteLine(name)} :
            /\ ReadLine(line, AnyDay, "ok")
            /\ call' = [op |-> "use", name |-> name]
            /\ ret' = NoCall

NextNames ==
    \/ AddNamed
    \/ UseNamed

SpecNames == Init /\ [][NextNames]_vars

\* what the shell prints for line in the present state
Answer(line) ==
    RunLine(book, notebook, contactsFile, notesFile, line, AnyDay, "ok", padYear).out

\* C15: right after add contact succeeded for a name argument, show contact,
\* edit contact and delete contact with the same argument find the contact
C15_SameNameFinds ==
    (call.op = "add contact" /\ out.kind = "message" /\ out.tag = "added") =>
        /\ Answer(ShowLine(call.name)).tag = "shown"
        /\ Answer(EditLine(call.name)).tag = "updated"
        /\ Answer(DeleteLine(call.name)).tag = "deleted"
-----------------------------------------------------------------------------
(* Lines in which the command name runs into the characters after it       *)

\* lines that start with the characters of a command name
\*   [exiting]
\*   [Quitter]
\*   [add notebook]
\*   [add noteTodo tags=a]
\*   [add contactAnn phone=5551234]
\*   [edit contactann address=Lviv]
\*   [delete contactbob]
\*   [ list notess]
\*   [search notes by tagged]
GluedLines ==
    {<<"e","x","i","t","i","n","g">>,
     <<"Q","u","i","t","t","e","r">>,
     <<"a","d","d"," ","n","o","t","e","b","o","o","k">>,
     <<"a","d","d"," ","n","o","t","e","T","o","d","o"," ","t","a","g","s","=","a">>,
     <<"a","d","d"," ","c","o","n","t","a","c","t","A","n","n"," ","p","h","o","n","e","=","5","5","5","1","2","3","4">>,
     <<"e","d","i","t"," ","c","o","n","t","a","c","t","a","n","n"," ","a","d","d","r","e","s","s","=","L","v","i","v">>,
     <<"d","e","l","e","t","e"," ","c","o","n","t","a","c","t","b","o","b">>,
     <<" ","l","i","s","t"," ","n","o","t","e","s","s">>,
     <<"s","e","a","r","c","h"," ","n","o","t","e","s"," ","b","y"," ","t","a","g","g","e","d">>}

\* lines that start with no command name
\*   [exi]
\*   [add not]
\*   [notebook]
LooseLines ==
    {<<"e","x","i">>,
     <<"a","d","d"," ","n","o","t">>,
     <<"n","o","t","e","b","o","o","k">>}

\* a line is typed; call keeps it
TypeGlued ==
    \E line \in GluedLines :
        /\ ReadLine(line, AnyDay, "ok")
        /\ call' = [op |-> "line", line |-> line]
        /\ ret' = NoCall

TypeLoose ==
    \E line \in LooseLines :
        /\ ReadLine(line, AnyDay, "ok")
        /\ call' = [op |-> "line", line |-> line]
        /\ ret' = NoCall

NextGlued ==
    \/ TypeGlued
    \/ TypeLoose

SpecGlued == Init /\ [][NextGlued]_vars

\* the longest registered name that the trimmed, lowercased line starts with
LongestName(line) ==
    CHOOSE name \in PrefixNames(line) : \A other \in PrefixNames(line) : Len(other) <= Len(name)

\* the characters of the trimmed line after its first n
After(line, n) == SubSeq(Trim(line), n + 1, Len(Trim(line)))

\* C16: a line whose trimmed, lowercased form starts with the characters of
\* a registered name runs that command with the characters after the name
\* as its argument, whatever they are: the shell does not report an unknown
\* command, exit and quit end the loop, and only a line that starts with no
\* registered name reaches the suggestion
C16_NoWordBoundary ==
    call.op = "line" =>
        IF PrefixNames(call.line) = {} THEN out.kind = "unknown"
        ELSE /\ out.kind # "unknown"
             /\ Resolve(call.line).found
             /\ Resolve(call.line).name = LongestName(call.line)
             /\ Resolve(call.line).arguments
                   = Trim(After(call.line, Len(LongestName(call.line))))
             /\ LongestName(call.line) \in {CmdExit, CmdQuit} =>
                   (~running /\ out.tag = "goodbye")
             /\ call.line = <<"e","x","i","t","i","n","g">> =>
                   (Resolve(call.line).name = CmdExit
                      /\ Resolve(call.line).arguments = <<"i","n","g">>)
             /\ call.line = <<"a","d","d"," ","n","o","t","e","b","o","o","k">> =>
                   (Resolve(call.line).name = CmdAddNote
                      /\ Resolve(call.line).arguments = <<"b","o","o","k">>
                      /\ NotebookGet(notebook, <<"b","o","o","k">>) # <<>>)

\* exiting was typed and ended the loop
C16_ExitingEnds ==
    /\ call.op = "line"
    /\ call.line = <<"e","x","i","t","i","n","g">>
    /\ ~running
=============================================================================
